---- MODULE Spec2Model ----
(***************************************************************************)
(* TrackIt: the scheduled price-check engine (src/scheduler/cronJobs.js),  *)
(* the alert decision and price-change helpers (src/services/priceHelper), *)
(* the persistence calls it uses (src/db/queries) and the /check command.  *)
(*                                                                         *)
(* Conventions.                                                            *)
(*  - A price is a natural number of hundredths of the currency unit, so   *)
(*    the 0.01 tolerance of calculatePriceChange is 1.  0 stands for every *)
(*    falsy price of the JavaScript code (NULL, undefined, 0).             *)
(*  - A timestamp is a number of minutes since a Sunday 00:00 of the       *)
(*    process's local time; an absent timestamp is <<>>, a present one     *)
(*    <<t>>.                                                               *)
(*  - One action is one run of JavaScript between two awaits: the          *)
(*    completion of the awaited call together with the synchronous code    *)
(*    that follows it, up to the next await.                               *)
(***************************************************************************)
EXTENDS Integers, Sequences, FiniteSets, TLC

(***************************************************************************)
(* Bounds of the model.                                                    *)
(***************************************************************************)
NumProducts == 3
MaxTicks == 2
MaxChecks == 1
MaxFaults == 2
MaxRetries == 3
MaxTracks == 2
MaxCrashes == 1
TrendMaxLen == 6

Products == 1..NumProducts
Users == {1, 2}
Sweeps == {1, 2}

(***************************************************************************)
(* Program constants.                                                      *)
(***************************************************************************)
MIN_DROP_PERCENT == 2
SignificantDropPercent == 5
TrendEntries == 5
TrendThreshold == 2
ScrapeRetries == 1
HourlyMinMinutes == 60
DailyMinMinutes == 1200
WeeklyMinMinutes == 8640
MinutesPerDay == 1440
Sunday == 0
NineAM == 540

PLANS ==
  [FREE |-> [id |-> "FREE", maxProducts |-> 1,  checkInterval |-> "WEEKLY"],
   PRO  |-> [id |-> "PRO",  maxProducts |-> 10, checkInterval |-> "DAILY"]]

(***************************************************************************)
(* String.prototype.toUpperCase on the strings the model uses.             *)
(***************************************************************************)
toUpperCase(s) ==
  CASE s = "daily"  -> "DAILY"
    [] s = "weekly" -> "WEEKLY"
    [] s = "hourly" -> "HOURLY"
    [] s = "pro"    -> "PRO"
    [] s = "free"   -> "FREE"
    [] OTHER        -> s

getPlanById(planId) ==
  LET id == toUpperCase(planId)
  IN  IF id = "PRO" THEN PLANS.PRO
      ELSE IF id = "FREE" THEN PLANS.FREE
      ELSE PLANS.FREE

getUserPlan(user) ==
  IF user.plan = "" THEN PLANS.FREE ELSE getPlanById(user.plan)

(***************************************************************************)
(* isEligibleForCheck(user, product) at the instant t (new Date()).        *)
(* The code divides the millisecond difference by the length of an hour    *)
(* (a day) and compares with 1, 20 (6): on minutes that is the comparison  *)
(* with 60, 1200 (8640).                                                   *)
(***************************************************************************)
dayOfWeek(t) == (t \div MinutesPerDay) % 7

\* The interval the switch of isEligibleForCheck decides on:
\* (user.check_interval || plan.checkInterval).toUpperCase().
EffectiveInterval(user) ==
  toUpperCase(IF user.check_interval # "" THEN user.check_interval
              ELSE getUserPlan(user).checkInterval)

EligibleWeeklyIgnoringDay(user, product, t) ==
  LET plan == getUserPlan(user)
      checkInterval == IF user.check_interval # "" THEN user.check_interval
                       ELSE plan.checkInterval
      lastChecked == product.last_checked_at
      since == t - lastChecked[1]
      iv == toUpperCase(checkInterval)
  IN  IF iv = "HOURLY"
        THEN ~(lastChecked # <<>> /\ since < HourlyMinMinutes)
      ELSE IF iv = "DAILY"
        THEN ~(lastChecked # <<>> /\ since < DailyMinMinutes)
      ELSE ~(lastChecked # <<>> /\ since < WeeklyMinMinutes)

EligibleDailyFullDay(user, product, t) ==
  LET plan == getUserPlan(user)
      checkInterval == IF user.check_interval # "" THEN user.check_interval
                       ELSE plan.checkInterval
      lastChecked == product.last_checked_at
      since == t - lastChecked[1]
      iv == toUpperCase(checkInterval)
  IN  IF iv = "HOURLY"
        THEN ~(lastChecked # <<>> /\ since < HourlyMinMinutes)
      ELSE IF iv = "DAILY"
        THEN ~(lastChecked # <<>> /\ since < MinutesPerDay)
      ELSE IF dayOfWeek(t) # Sunday THEN FALSE
      ELSE ~(lastChecked # <<>> /\ since < WeeklyMinMinutes)

EligibleHourlyHalfHour(user, product, t) ==
  LET plan == getUserPlan(user)
      checkInterval == IF user.check_interval # "" THEN user.check_interval
                       ELSE plan.checkInterval
      lastChecked == product.last_checked_at
      since == t - lastChecked[1]
      iv == toUpperCase(checkInterval)
  IN  IF iv = "HOURLY"
        THEN ~(lastChecked # <<>> /\ since < HourlyMinMinutes \div 2)
      ELSE IF iv = "DAILY"
        THEN ~(lastChecked # <<>> /\ since < DailyMinMinutes)
      ELSE IF dayOfWeek(t) # Sunday THEN FALSE
      ELSE ~(lastChecked # <<>> /\ since < WeeklyMinMinutes)

isEligibleForCheck(user, product, t) ==
  LET plan == getUserPlan(user)
      checkInterval == IF user.check_interval # "" THEN user.check_interval
                       ELSE plan.checkInterval
      lastChecked == product.last_checked_at
      since == t - lastChecked[1]
      iv == toUpperCase(checkInterval)
  IN  IF iv = "HOURLY"
        THEN ~(lastChecked # <<>> /\ since < HourlyMinMinutes)
      ELSE IF iv = "DAILY"
        THEN ~(lastChecked # <<>> /\ since < DailyMinMinutes)
      ELSE IF dayOfWeek(t) # Sunday THEN FALSE
      ELSE ~(lastChecked # <<>> /\ since < WeeklyMinMinutes)

(***************************************************************************)
(* calculatePriceChange(oldPrice, newPrice).  percentChange is kept as the *)
(* pair it is the quotient of; the comparison absPercent >= threshold is   *)
(* made on the cross product.                                              *)
(***************************************************************************)
Abs(x) == IF x < 0 THEN -x ELSE x

ChangeWithoutTolerance(oldPrice, newPrice) ==
  IF oldPrice <= 0 \/ newPrice <= 0
    THEN [absoluteChange |-> 0, direction |-> "unchanged",
          isMeaningful |-> FALSE, isDropped |-> FALSE]
    ELSE LET absoluteChange == oldPrice - newPrice
             direction == IF absoluteChange > 0 THEN "down"
                          ELSE IF absoluteChange < 0 THEN "up"
                          ELSE "unchanged"
         IN  [absoluteChange |-> absoluteChange,
              direction |-> direction,
              isMeaningful |-> direction = "down"
                  /\ Abs(absoluteChange) * 100 >= MIN_DROP_PERCENT * oldPrice,
              isDropped |-> direction = "down"]

ChangeStrictThreshold(oldPrice, newPrice) ==
  IF oldPrice <= 0 \/ newPrice <= 0
    THEN [absoluteChange |-> 0, direction |-> "unchanged",
          isMeaningful |-> FALSE, isDropped |-> FALSE]
    ELSE LET absoluteChange == oldPrice - newPrice
             direction == IF absoluteChange > 1 THEN "down"
                          ELSE IF absoluteChange < -1 THEN "up"
                          ELSE "unchanged"
         IN  [absoluteChange |-> absoluteChange,
              direction |-> direction,
              isMeaningful |-> direction = "down"
                  /\ Abs(absoluteChange) * 100 > MIN_DROP_PERCENT * oldPrice,
              isDropped |-> direction = "down"]

calculatePriceChange(oldPrice, newPrice) ==
  IF oldPrice <= 0 \/ newPrice <= 0
    THEN [absoluteChange |-> 0, direction |-> "unchanged",
          isMeaningful |-> FALSE, isDropped |-> FALSE]
    ELSE LET absoluteChange == oldPrice - newPrice
             direction == IF absoluteChange > 1 THEN "down"
                          ELSE IF absoluteChange < -1 THEN "up"
                          ELSE "unchanged"
         IN  [absoluteChange |-> absoluteChange,
              direction |-> direction,
              isMeaningful |-> direction = "down"
                  /\ Abs(absoluteChange) * 100 >= MIN_DROP_PERCENT * oldPrice,
              isDropped |-> direction = "down"]

(***************************************************************************)
(* shouldTriggerAlert(product, oldPrice, newPrice) of priceHelper.js.      *)
(***************************************************************************)
TriggerAlertThresholdFirst(product, oldPrice, newPrice) ==
  LET priceChange == calculatePriceChange(oldPrice, newPrice)
  IN  IF ~priceChange.isDropped
        THEN [shouldAlert |-> FALSE, priority |-> "none"]
      ELSE IF product.last_alert_price # 0 /\ newPrice >= product.last_alert_price
        THEN [shouldAlert |-> FALSE, priority |-> "none"]
      ELSE IF priceChange.isMeaningful
        THEN [shouldAlert |-> TRUE, priority |-> "normal"]
      ELSE IF product.target_price # 0 /\ newPrice <= product.target_price
        THEN [shouldAlert |-> TRUE, priority |-> "high"]
      ELSE [shouldAlert |-> FALSE, priority |-> "none"]

shouldTriggerAlert(product, oldPrice, newPrice) ==
  LET priceChange == calculatePriceChange(oldPrice, newPrice)
  IN  IF ~priceChange.isDropped
        THEN [shouldAlert |-> FALSE, priority |-> "none"]
      ELSE IF product.last_alert_price # 0 /\ newPrice >= product.last_alert_price
        THEN [shouldAlert |-> FALSE, priority |-> "none"]
      ELSE IF product.target_price # 0 /\ newPrice <= product.target_price
        THEN [shouldAlert |-> TRUE, priority |-> "high"]
      ELSE IF priceChange.isMeaningful
        THEN [shouldAlert |-> TRUE, priority |-> "normal"]
      ELSE [shouldAlert |-> FALSE, priority |-> "none"]

(***************************************************************************)
(* shouldSendNotification(product, oldPrice, newPrice) of cronJobs.js, the *)
(* decision the sweep uses.  dropPercentage is toFixed(1) of the percent   *)
(* drop, i.e. the drop in tenths of a percent rounded to nearest; the      *)
(* result carries no priority.                                             *)
(***************************************************************************)
DropTenths(oldPrice, newPrice) ==
  ((oldPrice - newPrice) * 2000 + oldPrice) \div (2 * oldPrice)

SendNotificationNoSuppression(product, oldPrice, newPrice) ==
  IF newPrice = 0 \/ oldPrice = 0
    THEN [notify |-> FALSE, reason |-> ""]
  ELSE IF product.target_price # 0 /\ newPrice <= product.target_price
    THEN [notify |-> TRUE, reason |-> "Target price reached!"]
  ELSE IF product.target_price = 0 /\ newPrice < oldPrice
    THEN [notify |-> TRUE, reason |-> "Price dropped"]
  ELSE IF product.target_price # 0 /\ newPrice < oldPrice
          /\ DropTenths(oldPrice, newPrice) >= SignificantDropPercent * 10
    THEN [notify |-> TRUE, reason |-> "Price dropped (still above target)"]
  ELSE [notify |-> FALSE, reason |-> ""]

shouldSendNotification(product, oldPrice, newPrice) ==
  IF newPrice = 0 \/ oldPrice = 0
    THEN [notify |-> FALSE, reason |-> ""]
  ELSE IF product.last_alert_price # 0 /\ newPrice >= product.last_alert_price
    THEN [notify |-> FALSE, reason |-> "Already alerted"]
  ELSE IF product.target_price # 0 /\ newPrice <= product.target_price
    THEN [notify |-> TRUE, reason |-> "Target price reached!"]
  ELSE IF product.target_price = 0 /\ newPrice < oldPrice
    THEN [notify |-> TRUE, reason |-> "Price dropped"]
  ELSE IF product.target_price # 0 /\ newPrice < oldPrice
          /\ DropTenths(oldPrice, newPrice) >= SignificantDropPercent * 10
    THEN [notify |-> TRUE, reason |-> "Price dropped (still above target)"]
  ELSE [notify |-> FALSE, reason |-> ""]

(***************************************************************************)
(* State.                                                                  *)
(***************************************************************************)
VARIABLES
  users,             \* users table: id -> [plan, check_interval, is_active]
  tracked_products,  \* tracked_products table: id -> row
  price_history,     \* price_history table: product id -> entries, oldest first
  runStats,          \* the module-level runStats of cronJobs.js
  sweep,             \* invocation -> frame of runPriceCheckByInterval
  check,             \* frame of handleCheck
  track,             \* frames of the /track commands in flight
  slots,             \* the invocations of the sweep that may be in flight
  now,               \* the clock
  ticks,             \* clock steps taken
  due,               \* cron expressions that matched and whose callback has not run
  runs,              \* sweeps started so far
  checks,            \* /check commands handled so far
  faults,            \* calls that failed so far (fetches, statements, sends)
  sent,              \* log of the messages sendMessage delivered
  alerts,            \* log of the alert states updateAlertStatus stored
  quotes,            \* product -> prices scrapeAmazonProduct returned for it
  changes,           \* product -> number of writes that changed current_price
  writes,            \* product -> number of writes of current_price by a check
  crashes,           \* number of times the process died and was restarted
  removals,          \* log of the deleteTrackedProduct calls that returned
  cleanups,          \* log of the cleanupPriceHistory calls that returned
  call,              \* arguments of a pure function under test
  ret                \* its result

vars == <<users, tracked_products, price_history, runStats, sweep, check, track, slots,
          now, ticks, due, runs, checks, faults, sent, alerts, quotes, changes, writes, crashes,
          removals, cleanups, call, ret>>

dbVars == <<users, tracked_products, price_history>>
sweepVars == <<runStats, sweep, slots, due, runs, sent, alerts>>
pureVars == <<call, ret>>

\* A call into the environment (a page request, an SQL statement, a Telegram
\* send) completes; `failed` tells whether it failed.
Fault(failed) ==
  /\ failed => faults < MaxFaults
  /\ faults' = IF failed THEN faults + 1 ELSE faults

(***************************************************************************)
(* Persistence (src/db/queries).                                           *)
(***************************************************************************)
\* The joined row the two sweep queries return for product p.
JoinRow(p) ==
  LET tp == tracked_products[p]
      u  == users[tp.user_id]
  IN  [id |-> p, user_id |-> tp.user_id, current_price |-> tp.current_price,
       target_price |-> tp.target_price, last_alert_price |-> tp.last_alert_price,
       last_checked_at |-> tp.last_checked_at, plan |-> u.plan,
       check_interval |-> u.check_interval]

\* ORDER BY last_checked_at ASC: NULL first, then oldest first; rows with equal
\* keys in rowid order.
CheckedBefore(p, q) ==
  LET a == tracked_products[p].last_checked_at
      b == tracked_products[q].last_checked_at
  IN  IF a = b THEN p < q
      ELSE IF a = <<>> THEN TRUE
      ELSE IF b = <<>> THEN FALSE
      ELSE a[1] < b[1]

RECURSIVE OrderByLastChecked(_)
OrderByLastChecked(S) ==
  IF S = {} THEN <<>>
  ELSE LET first == CHOOSE p \in S : \A q \in S \ {p} : CheckedBefore(p, q)
       IN  <<JoinRow(first)>> \o OrderByLastChecked(S \ {first})

getActiveTrackedProductsByInterval(interval) ==
  OrderByLastChecked({p \in Products :
      /\ tracked_products[p].is_active
      /\ users[tracked_products[p].user_id].is_active
      /\ users[tracked_products[p].user_id].check_interval = interval})

\* ORDER BY created_at DESC: products are created in id order.
RECURSIVE OrderByCreatedDesc(_)
OrderByCreatedDesc(S) ==
  IF S = {} THEN <<>>
  ELSE LET last == CHOOSE p \in S : \A q \in S : q <= p
       IN  <<JoinRow(last)>> \o OrderByCreatedDesc(S \ {last})

getTrackedProductsByUserId(userId) ==
  OrderByCreatedDesc({p \in Products :
      tracked_products[p].user_id = userId /\ tracked_products[p].is_active})

\* UPDATE tracked_products SET current_price, title, last_checked_at WHERE id
updateProductPrice(productId, currentPrice, t) ==
  [tracked_products EXCEPT ![productId].current_price = currentPrice,
                           ![productId].last_checked_at = <<t>>]

\* UPDATE tracked_products SET last_alert_price, last_alerted_at WHERE id
updateAlertStatus(productId, alertPrice, t) ==
  [tracked_products EXCEPT ![productId].last_alert_price = alertPrice,
                           ![productId].last_alerted_at = <<t>>]

\* INSERT INTO price_history (product_id, price); checked_at is
\* DEFAULT CURRENT_TIMESTAMP.
addPriceHistory(productId, price) ==
  [price_history EXCEPT ![productId] =
     Append(@, [price |-> price, checked_at |-> now])]

(***************************************************************************)
(* The sweep: runPriceCheckByInterval (cronJobs.js).                       *)
(***************************************************************************)
ZeroStats ==
  [productsChecked |-> 0, productsSkipped |-> 0, priceDrops |-> 0,
   notificationsSent |-> 0, errors |-> 0]

IdleSweep ==
  [pc |-> "idle", interval |-> "", run |-> 0, items |-> <<>>, idx |-> 0,
   attempt |-> 0, newPrice |-> 0, outcome |-> <<>>, evalAt |-> <<>>, got |-> <<>>,
   loadFailed |-> FALSE, summary |-> FALSE]

\* productsByUser: the rows grouped by user_id; Object.keys lists integer keys
\* in ascending order, each group in load order.
RECURSIVE GroupByUser(_, _)
GroupByUser(U, rows) ==
  IF U = {} THEN <<>>
  ELSE LET u == CHOOSE x \in U : \A y \in U : x <= y
       IN  SelectSeq(rows, LAMBDA r : r.user_id = u) \o GroupByUser(U \ {u}, rows)

\* The user object the sweep builds from a group's first row (lines 181-187).
GroupUser(row) ==
  [plan |-> IF row.plan = "" THEN "FREE" ELSE row.plan,
   check_interval |-> IF row.check_interval = "" THEN "WEEKLY"
                      ELSE row.check_interval]

\* The loop from the item after w.idx on, at instant t: ineligible items are
\* counted as skipped; the first eligible one is left waiting for its pacing
\* delay (when runStats.productsChecked > 0) or for its first scrape; past the
\* last item the summary is logged (lines 276-286) and the sweep returns.
RECURSIVE ContinueSkipUncounted(_, _, _)
ContinueSkipUncounted(w, stats, t) ==
  IF w.idx >= Len(w.items)
    THEN [w |-> [w EXCEPT !.pc = "done", !.summary = TRUE], stats |-> stats]
    ELSE LET i == w.idx + 1
             product == w.items[i]
             seen == [w EXCEPT !.idx = i, !.evalAt[i] = <<t>>]
         IN  IF ~isEligibleForCheck(GroupUser(product), product, t)
               THEN ContinueSkipUncounted([seen EXCEPT !.outcome[i] = "skipped"],
                                          stats, t)
               ELSE [w |-> [seen EXCEPT !.attempt = 0,
                                 !.pc = IF stats.productsChecked > 0
                                        THEN "delay" ELSE "fetch"],
                     stats |-> stats]

\* A pipelined loop: the page of the following candidate is requested while
\* the current one is still being processed.
RECURSIVE ContinuePrefetchesNext(_, _, _)
ContinuePrefetchesNext(w, stats, t) ==
  IF w.idx >= Len(w.items)
    THEN [w |-> [w EXCEPT !.pc = "done", !.summary = TRUE], stats |-> stats]
    ELSE LET i == w.idx + 1
             product == w.items[i]
             seen == [w EXCEPT !.idx = i, !.evalAt[i] = <<t>>]
         IN  IF ~isEligibleForCheck(GroupUser(product), product, t)
               THEN ContinuePrefetchesNext([seen EXCEPT !.outcome[i] = "skipped"],
                             [stats EXCEPT !.productsSkipped = @ + 1], t)
               ELSE [w |-> [seen EXCEPT !.attempt = 0,
                                 !.got = [j \in DOMAIN @ |->
                                            IF j = i + 1 THEN w.items[j].current_price
                                            ELSE @[j]],
                                 !.pc = IF stats.productsChecked > 0
                                        THEN "delay" ELSE "fetch"],
                     stats |-> stats]

RECURSIVE Continue(_, _, _)
Continue(w, stats, t) ==
  IF w.idx >= Len(w.items)
    THEN [w |-> [w EXCEPT !.pc = "done", !.summary = TRUE], stats |-> stats]
    ELSE LET i == w.idx + 1
             product == w.items[i]
             seen == [w EXCEPT !.idx = i, !.evalAt[i] = <<t>>]
         IN  IF ~isEligibleForCheck(GroupUser(product), product, t)
               THEN Continue([seen EXCEPT !.outcome[i] = "skipped"],
                             [stats EXCEPT !.productsSkipped = @ + 1], t)
               ELSE [w |-> [seen EXCEPT !.attempt = 0,
                                 !.pc = IF stats.productsChecked > 0
                                        THEN "delay" ELSE "fetch"],
                     stats |-> stats]

\* The catch of lines 267-272: count the error, go on with the next product.
CatchAbortsSweep(w, stats, tag, t) ==
  [w |-> [w EXCEPT !.outcome[w.idx] = tag, !.pc = "done"],
   stats |-> [stats EXCEPT !.errors = @ + 1]]

CatchItemError(w, stats, tag, t) ==
  Continue([w EXCEPT !.outcome[w.idx] = tag],
           [stats EXCEPT !.errors = @ + 1], t)

\* Lines 227-231: scrapeWithRetry returned null.
NullQuoteUncounted(w, stats, t) ==
  Continue([w EXCEPT !.outcome[w.idx] = "nofetch"], stats, t)

OnNullQuote(w, stats, t) ==
  Continue([w EXCEPT !.outcome[w.idx] = "nofetch"],
           [stats EXCEPT !.errors = @ + 1], t)

\* Lines 261-264: the catch around the notification and the alert-state write.
CatchNotifyError(w, stats, tag, t) ==
  Continue([w EXCEPT !.outcome[w.idx] = tag], stats, t)

\* A cron callback runs: lines 150-157 reset runStats, lines 159-166 load the
\* candidates (the query may fail: line 287), an empty list makes the function
\* return at once (lines 171-174), lines 177-192 group the rows.
StartSweepKeepsStats(s, interval) ==
  /\ interval \in due
  /\ s \in slots
  /\ sweep[s].pc \in {"idle", "done"}
  /\ \A other \in slots : sweep[other].pc \in {"idle", "done"} => s <= other
  /\ due' = due \ {interval}
  /\ runs' = runs + 1
  /\ \E loadOk \in BOOLEAN :
       Fault(~loadOk) /\
       IF loadOk
         THEN LET rows == GroupByUser(Users, getActiveTrackedProductsByInterval(interval))
                  w0 == [IdleSweep EXCEPT !.interval = interval, !.run = runs + 1,
                             !.items = rows,
                             !.outcome = [i \in 1..Len(rows) |-> "pending"],
                             !.evalAt = [i \in 1..Len(rows) |-> <<>>],
                             !.got = [i \in 1..Len(rows) |-> 0]]
                  r == IF rows = <<>>
                         THEN [w |-> [w0 EXCEPT !.pc = "done"], stats |-> ZeroStats]
                         ELSE Continue(w0, ZeroStats, now)
              IN  /\ sweep' = [sweep EXCEPT ![s] = r.w]
                  /\ runStats' = r.stats
         ELSE /\ sweep' = [sweep EXCEPT ![s] =
                     [IdleSweep EXCEPT !.interval = interval, !.run = runs + 1,
                                       !.pc = "done", !.loadFailed = TRUE]]
              /\ UNCHANGED runStats
  /\ UNCHANGED <<dbVars, check, slots, now, ticks, checks, sent, quotes, changes, writes, crashes, removals, cleanups,
                 alerts,
                 track, pureVars>>

StartSweep(s, interval) ==
  /\ interval \in due
  /\ s \in slots
  /\ sweep[s].pc \in {"idle", "done"}
  /\ \A other \in slots : sweep[other].pc \in {"idle", "done"} => s <= other
  /\ due' = due \ {interval}
  /\ runs' = runs + 1
  /\ \E loadOk \in BOOLEAN :
       Fault(~loadOk) /\
       IF loadOk
         THEN LET rows == GroupByUser(Users, getActiveTrackedProductsByInterval(interval))
                  w0 == [IdleSweep EXCEPT !.interval = interval, !.run = runs + 1,
                             !.items = rows,
                             !.outcome = [i \in 1..Len(rows) |-> "pending"],
                             !.evalAt = [i \in 1..Len(rows) |-> <<>>],
                             !.got = [i \in 1..Len(rows) |-> 0]]
                  r == IF rows = <<>>
                         THEN [w |-> [w0 EXCEPT !.pc = "done"], stats |-> ZeroStats]
                         ELSE Continue(w0, ZeroStats, now)
              IN  /\ sweep' = [sweep EXCEPT ![s] = r.w]
                  /\ runStats' = r.stats
         ELSE /\ sweep' = [sweep EXCEPT ![s] =
                     [IdleSweep EXCEPT !.interval = interval, !.run = runs + 1,
                                       !.pc = "done", !.loadFailed = TRUE]]
              /\ runStats' = ZeroStats
  /\ UNCHANGED <<dbVars, check, slots, now, ticks, checks, sent, quotes, changes, writes, crashes, removals, cleanups,
                 alerts,
                 track, pureVars>>

\* Lines 219-222: the pacing delay elapses.
PacingDelay(s) ==
  /\ sweep[s].pc = "delay"
  /\ sweep' = [sweep EXCEPT ![s].pc = "fetch"]
  /\ UNCHANGED <<dbVars, runStats, check, slots, now, ticks, due, runs, checks, faults, sent,
                 quotes, changes, writes, crashes, removals, cleanups, alerts,
                 track, pureVars>>

(***************************************************************************)
(* The quote fetcher, scrapeAmazonProduct (src/scraper): the request may   *)
(* fail; a page without a title or without a price makes it throw.  A      *)
(* response is [failed, price], price 0 when the page shows none.          *)
(***************************************************************************)
FetchPrices == {90, 100}
Responses ==
  {[failed |-> TRUE, price |-> 0]}
    \cup {[failed |-> FALSE, price |-> x] : x \in FetchPrices \cup {0}}

ScrapeWithoutPriceCheck(resp) ==
  IF resp.failed THEN [threw |-> TRUE, price |-> 0]
  ELSE [threw |-> FALSE, price |-> resp.price]

scrapeAmazonProduct(resp) ==
  IF resp.failed \/ resp.price = 0 THEN [threw |-> TRUE, price |-> 0]
  ELSE [threw |-> FALSE, price |-> resp.price]

\* One await of a persistence call: the statement is rejected, or it is applied
\* and the SELECT that reads the row back fails, or both succeed.
DbOutcomes == {"ok", "rejected", "readback"}

Item(s) == sweep[s].items[sweep[s].idx]

\* One attempt of scrapeWithRetry(url, 1) completes (lines 410-429); a failed
\* attempt below the retry bound waits and scrapes again, the last one makes
\* the wrapper return null.
ScrapeAttempt(s) ==
  /\ sweep[s].pc = "fetch"
  /\ \E resp \in Responses :
       Fault(resp.failed \/ resp.price = 0) /\
       LET w == sweep[s]
           result == scrapeAmazonProduct(resp)
       IN  IF ~result.threw /\ result.price # 0
             THEN /\ sweep' = [sweep EXCEPT ![s].newPrice = result.price,
                                             ![s].got[w.idx] = result.price,
                                             ![s].pc = "update"]
                  /\ quotes' = [quotes EXCEPT ![Item(s).id] = @ \cup {result.price}]
                  /\ UNCHANGED runStats
           ELSE IF w.attempt < ScrapeRetries
             THEN /\ sweep' = [sweep EXCEPT ![s].attempt = @ + 1]
                  /\ UNCHANGED <<runStats, quotes>>
           ELSE LET r == OnNullQuote(w, runStats, now)
                IN  /\ sweep' = [sweep EXCEPT ![s] = r.w]
                    /\ runStats' = r.stats
                    /\ UNCHANGED quotes
  /\ UNCHANGED <<dbVars, check, slots, now, ticks, due, runs, checks, sent, changes, writes, crashes, removals, cleanups, alerts,
                 track, pureVars>>

\* await queries.updateProductPrice(product.id, newPrice, title), line 239.
UpdatePrice(s) ==
  /\ sweep[s].pc = "update"
  /\ \E res \in DbOutcomes :
       Fault(res # "ok") /\
       LET w == sweep[s]
           p == Item(s).id
       IN  /\ IF res = "rejected"
                THEN UNCHANGED <<tracked_products, changes, writes>>
                ELSE /\ tracked_products' = updateProductPrice(p, w.newPrice, now)
                     /\ changes' = [changes EXCEPT ![p] =
                            IF tracked_products[p].current_price # w.newPrice
                            THEN @ + 1 ELSE @]
                     /\ writes' = [writes EXCEPT ![p] = @ + 1]
           /\ IF res = "ok"
                THEN /\ sweep' = [sweep EXCEPT ![s].pc = "history"]
                     /\ UNCHANGED runStats
                ELSE LET r == CatchItemError(w, runStats, "updfail", now)
                     IN  /\ sweep' = [sweep EXCEPT ![s] = r.w]
                         /\ runStats' = r.stats
  /\ UNCHANGED <<users, price_history, check, slots, now, ticks, due, runs, checks, sent,
                 quotes, alerts, crashes, removals, cleanups,
                 track, pureVars>>

\* await queries.addPriceHistory(product.id, newPrice), line 242, then the
\* count and the decision of lines 244-251.
RecordHistory(s) ==
  /\ sweep[s].pc = "history"
  /\ \E res \in DbOutcomes :
       Fault(res # "ok") /\
       LET w == sweep[s]
           product == Item(s)
           oldPrice == product.current_price
           counted == [runStats EXCEPT !.productsChecked = @ + 1]
           shouldNotify == shouldSendNotification(product, oldPrice, w.newPrice)
       IN  /\ price_history' = IF res = "rejected" THEN price_history
                               ELSE addPriceHistory(product.id, w.newPrice)
           /\ IF res # "ok"
                THEN LET r == CatchItemError(w, runStats, "histfail", now)
                     IN  /\ sweep' = [sweep EXCEPT ![s] = r.w]
                         /\ runStats' = r.stats
                ELSE IF shouldNotify.notify
                  THEN /\ sweep' = [sweep EXCEPT ![s].pc = "send"]
                       /\ runStats' = [counted EXCEPT !.priceDrops = @ + 1]
                  ELSE LET r == Continue([w EXCEPT !.outcome[w.idx] = "checked"],
                                         counted, now)
                       IN  /\ sweep' = [sweep EXCEPT ![s] = r.w]
                           /\ runStats' = r.stats
  /\ UNCHANGED <<users, tracked_products, check, slots, now, ticks, due, runs, checks,
                 sent, quotes, changes, writes, crashes, removals, cleanups, alerts,
                 track, pureVars>>

SendNotificationIgnoresFailure(s) ==
  /\ sweep[s].pc = "send"
  /\ \E ok \in BOOLEAN :
       Fault(~ok) /\
       LET w == sweep[s]
           product == Item(s)
       IN  IF ok
             THEN /\ sent' = sent \cup
                       {[product |-> product.id, oldPrice |-> product.current_price,
                         newPrice |-> w.newPrice, run |-> w.run,
                         epoch |-> changes[product.id]]}
                  /\ sweep' = [sweep EXCEPT ![s].pc = "alert"]
                  /\ UNCHANGED runStats
             ELSE /\ sweep' = [sweep EXCEPT ![s].pc = "alert"]
                  /\ UNCHANGED <<runStats, sent>>
  /\ UNCHANGED <<dbVars, check, slots, now, ticks, due, runs, checks, quotes, changes, writes, crashes, removals, cleanups,
                 alerts,
                 track, pureVars>>

\* await sendPriceDropNotification(...), line 255.
SendNotification(s) ==
  /\ sweep[s].pc = "send"
  /\ \E ok \in BOOLEAN :
       Fault(~ok) /\
       LET w == sweep[s]
           product == Item(s)
       IN  IF ok
             THEN /\ sent' = sent \cup
                       {[product |-> product.id, oldPrice |-> product.current_price,
                         newPrice |-> w.newPrice, run |-> w.run,
                         epoch |-> changes[product.id]]}
                  /\ sweep' = [sweep EXCEPT ![s].pc = "alert"]
                  /\ UNCHANGED runStats
             ELSE LET r == CatchNotifyError(w, runStats, "sendfail", now)
                  IN  /\ sweep' = [sweep EXCEPT ![s] = r.w]
                      /\ runStats' = r.stats
                      /\ UNCHANGED sent
  /\ UNCHANGED <<dbVars, check, slots, now, ticks, due, runs, checks, quotes, changes, writes, crashes, removals, cleanups,
                 alerts,
                 track, pureVars>>

\* await queries.updateAlertStatus(product.id, newPrice), line 258, then line 260.
RecordAlert(s) ==
  /\ sweep[s].pc = "alert"
  /\ \E res \in DbOutcomes :
       Fault(res # "ok") /\
       LET w == sweep[s]
           product == Item(s)
       IN  /\ tracked_products' = IF res = "rejected" THEN tracked_products
                  ELSE updateAlertStatus(product.id, w.newPrice, now)
           /\ alerts' = IF res = "rejected" THEN alerts
                  ELSE alerts \cup {[product |-> product.id, price |-> w.newPrice,
                                     run |-> w.run]}
           /\ LET r == IF res = "ok"
                         THEN Continue([w EXCEPT !.outcome[w.idx] = "notified"],
                                  [runStats EXCEPT !.notificationsSent = @ + 1], now)
                         ELSE CatchNotifyError(w, runStats, "alertfail", now)
              IN  /\ sweep' = [sweep EXCEPT ![s] = r.w]
                  /\ runStats' = r.stats
  /\ UNCHANGED <<users, price_history, check, slots, now, ticks, due, runs, checks, sent,
                 quotes, changes, writes, crashes, removals, cleanups, track, pureVars>>

(***************************************************************************)
(* The clock and node-cron: '0 9 * * *' (DAILY) and '0 9 * * 0' (WEEKLY).  *)
(* The clock moves in half days, between sweeps and commands (each of them *)
(* takes less than half a day); a callback runs at the instant its         *)
(* expression matches.                                                     *)
(***************************************************************************)
TickMinutes == MinutesPerDay \div 2

CronMatches(t) ==
  IF t % MinutesPerDay # NineAM THEN {}
  ELSE IF dayOfWeek(t) = Sunday THEN {"DAILY", "WEEKLY"}
  ELSE {"DAILY"}

Tick ==
  /\ ticks < MaxTicks
  /\ due = {}
  /\ \A s \in Sweeps : sweep[s].pc \in {"idle", "done"}
  /\ check.pc \in {"idle", "done"}
  /\ now' = now + TickMinutes
  /\ ticks' = ticks + 1
  /\ due' = CronMatches(now + TickMinutes)
  /\ UNCHANGED <<dbVars, runStats, sweep, check, slots, runs, checks, faults, sent,
                 quotes, changes, writes, crashes, removals, cleanups, alerts,
                 track, pureVars>>

(***************************************************************************)
(* The /check command: handleCheck (src/bot/commands.js).                  *)
(***************************************************************************)
IdleCheck == [pc |-> "idle", items |-> <<>>, idx |-> 0, newPrice |-> 0]

\* The end of one iteration of the loop of lines 622-671: a result was pushed;
\* the next product waits for the delay of line 626, after the last one the
\* report is sent.
CheckNext(c) ==
  IF c.idx >= Len(c.items) THEN [c EXCEPT !.pc = "done"]
  ELSE [c EXCEPT !.idx = @ + 1, !.pc = "delay"]

\* Lines 593-620: the user's active products are read.
StartCheck(u) ==
  /\ checks < MaxChecks
  /\ check.pc \in {"idle", "done"}
  /\ checks' = checks + 1
  /\ LET products == getTrackedProductsByUserId(u)
     IN  check' = IF Len(products) = 0 THEN [IdleCheck EXCEPT !.pc = "done"]
                  ELSE [IdleCheck EXCEPT !.items = products, !.idx = 1,
                                         !.pc = "fetch"]
  /\ UNCHANGED <<dbVars, sweepVars, now, ticks, faults, quotes, changes, writes, crashes, removals, cleanups, track, pureVars>>

CheckDelay ==
  /\ check.pc = "delay"
  /\ check' = [check EXCEPT !.pc = "fetch"]
  /\ UNCHANGED <<dbVars, sweepVars, now, ticks, checks, faults, quotes, changes, writes, crashes, removals, cleanups,
                 track, pureVars>>

\* Lines 630-632: one scrape, no retry; scraped.price is used as it is.
CheckScrape ==
  /\ check.pc = "fetch"
  /\ \E resp \in Responses :
       Fault(resp.failed \/ resp.price = 0) /\
       LET result == scrapeAmazonProduct(resp)
           p == check.items[check.idx].id
       IN  IF result.threw
             THEN /\ check' = CheckNext(check)
                  /\ UNCHANGED quotes
             ELSE /\ check' = [check EXCEPT !.newPrice = result.price,
                                             !.pc = "update"]
                  /\ quotes' = IF result.price = 0 THEN quotes
                                ELSE [quotes EXCEPT ![p] = @ \cup {result.price}]
  /\ UNCHANGED <<dbVars, sweepVars, now, ticks, checks, changes, writes, crashes, removals, cleanups, track, pureVars>>

\* Line 635.
CheckUpdate ==
  /\ check.pc = "update"
  /\ \E res \in DbOutcomes :
       Fault(res # "ok") /\
       LET p == check.items[check.idx].id
       IN  /\ IF res = "rejected"
                THEN UNCHANGED <<tracked_products, changes, writes>>
                ELSE /\ tracked_products' = updateProductPrice(p, check.newPrice, now)
                     /\ changes' = [changes EXCEPT ![p] =
                            IF tracked_products[p].current_price # check.newPrice
                            THEN @ + 1 ELSE @]
                     /\ writes' = [writes EXCEPT ![p] = @ + 1]
           /\ check' = IF res = "ok" THEN [check EXCEPT !.pc = "history"]
                        ELSE CheckNext(check)
  /\ UNCHANGED <<users, price_history, sweepVars, now, ticks, checks, quotes,
                 crashes, removals, cleanups, track, pureVars>>

\* Line 638; price_history.price is NOT NULL.
CheckHistory ==
  /\ check.pc = "history"
  /\ \E res \in DbOutcomes :
       Fault(res # "ok") /\
       LET p == check.items[check.idx].id
       IN  /\ price_history' = IF res = "rejected" \/ check.newPrice = 0
                                 THEN price_history
                                 ELSE addPriceHistory(p, check.newPrice)
           /\ check' = CheckNext(check)
  /\ UNCHANGED <<users, tracked_products, sweepVars, now, ticks, checks, quotes,
                 changes, writes, crashes, removals, cleanups, track, pureVars>>

(***************************************************************************)
(* The /upgrade command: handleUpgrade (src/bot/commands.js).  A user who  *)
(* is not on PRO is moved to it: upgradeUserPlan(id, 'PRO', 10, 'DAILY').  *)
(***************************************************************************)
upgradeUserPlan(userId, plan, maxProducts, checkInterval) ==
  [users EXCEPT ![userId].plan = plan, ![userId].max_products = maxProducts,
                ![userId].check_interval = checkInterval]

handleUpgrade(u) ==
  /\ users[u].plan # "PRO"
  /\ users' = upgradeUserPlan(u, "PRO", 10, "DAILY")
  /\ UNCHANGED <<tracked_products, price_history, sweepVars, check, now, ticks,
                 checks, faults, quotes, changes, writes, crashes, removals, cleanups, track, pureVars>>

\* The check intervals of plans.js; upgradeUserPlan stores the one it is
\* given.
CHECK_INTERVALS == {"WEEKLY", "DAILY", "HOURLY"}

PlanChange(u, checkInterval) ==
  /\ users[u].check_interval # checkInterval
  /\ users' = upgradeUserPlan(u, "PRO", 10, checkInterval)
  /\ UNCHANGED <<tracked_products, price_history, sweepVars, check, now, ticks,
                 checks, faults, quotes, changes, writes, crashes, removals, cleanups, track, pureVars>>

(***************************************************************************)
(* The /track command: handleTrack (src/bot/commands.js).  The bot calls   *)
(* the handler for every message without waiting for the one before, so   *)
(* up to MaxTracks of them are in flight, each at one of its awaits.  A    *)
(* row of tracked_products that is not active stands here for a row that   *)
(* was not inserted yet; INSERT takes the least such id.                   *)
(***************************************************************************)
Handlers == 1..MaxTracks

IdleTrack ==
  [pc |-> "idle", user |-> 0, dbUser |-> <<>>, currentCount |-> 0, price |-> 0,
   outcome |-> ""]

\* SELECT COUNT(*) FROM tracked_products WHERE user_id = ? AND is_active = 1
countUserTrackedProducts(userId) ==
  Cardinality({p \in Products :
      tracked_products[p].user_id = userId /\ tracked_products[p].is_active})

canUserTrackMore(user, currentProductCount) ==
  LET plan == getUserPlan(user)
      limit == IF user.max_products # 0 THEN user.max_products ELSE plan.maxProducts
  IN  [canTrack |-> currentProductCount < limit, limit |-> limit,
       current |-> currentProductCount]

validateTrackProduct(user, currentProductCount) ==
  LET trackCheck == canUserTrackMore(user, currentProductCount)
  IN  [allowed |-> trackCheck.canTrack, limit |-> trackCheck.limit]

\* INSERT INTO tracked_products (user_id, ..., current_price, last_checked_at)
createTrackedProduct(productId, userId, currentPrice, t) ==
  [tracked_products EXCEPT ![productId] =
     [user_id |-> userId, current_price |-> currentPrice, target_price |-> 0,
      last_alert_price |-> 0, last_alerted_at |-> <<>>, last_checked_at |-> <<t>>,
      is_active |-> TRUE]]

FreeRows == {p \in Products : ~tracked_products[p].is_active}

\* A /track message of user u arrives; findUserByTelegramId returns the row.
TrackFindUser(h, u) ==
  /\ track[h].pc = "idle"
  /\ \A g \in Handlers : track[g].pc = "idle" => h <= g
  /\ track' = [track EXCEPT ![h] =
         [IdleTrack EXCEPT !.pc = "count", !.user = u, !.dbUser = <<users[u]>>]]
  /\ UNCHANGED <<dbVars, sweepVars, check, now, ticks, checks, faults, quotes,
                 changes, writes, crashes, removals, cleanups, pureVars>>

\* countUserTrackedProducts returns; validateAction decides (lines 144-151).
TrackCount(h) ==
  /\ track[h].pc = "count"
  /\ LET currentCount == countUserTrackedProducts(track[h].user)
         planValidation == validateTrackProduct(track[h].dbUser[1], currentCount)
     IN  track' = [track EXCEPT ![h].currentCount = currentCount,
                                ![h].pc = IF planValidation.allowed
                                          THEN "scrape" ELSE "done",
                                ![h].outcome = IF planValidation.allowed
                                               THEN "" ELSE "refused"]
  /\ UNCHANGED <<dbVars, sweepVars, check, now, ticks, checks, faults, quotes,
                 changes, writes, crashes, removals, cleanups, pureVars>>

\* The processing message is sent and scrapeAmazonProduct returns or throws
\* (lines 154-175).
TrackScrape(h) ==
  /\ track[h].pc = "scrape"
  /\ \E resp \in Responses :
       Fault(resp.failed \/ resp.price = 0) /\
       LET productData == scrapeAmazonProduct(resp)
       IN  track' = IF productData.threw
                      THEN [track EXCEPT ![h].pc = "done", ![h].outcome = "nofetch"]
                      ELSE [track EXCEPT ![h].pc = "create",
                                         ![h].price = productData.price]
  /\ UNCHANGED <<dbVars, sweepVars, check, now, ticks, checks, quotes, changes, writes, crashes, removals, cleanups,
                 pureVars>>

\* createTrackedProduct returns or rejects (lines 184-190; the catch of the
\* handler reports a failure).
TrackCreate(h) ==
  /\ track[h].pc = "create"
  /\ FreeRows # {}
  /\ \E ok \in BOOLEAN :
       Fault(~ok) /\
       LET p == CHOOSE q \in FreeRows : \A r \in FreeRows : q <= r
       IN  IF ok
             THEN /\ tracked_products' =
                       createTrackedProduct(p, track[h].user, track[h].price, now)
                  /\ quotes' = [quotes EXCEPT ![p] = {track[h].price}]
                  /\ track' = [track EXCEPT ![h].pc = "done", ![h].outcome = "tracked"]
             ELSE /\ track' = [track EXCEPT ![h].pc = "done", ![h].outcome = "failed"]
                  /\ UNCHANGED <<tracked_products, quotes>>
  /\ UNCHANGED <<users, price_history, sweepVars, check, now, ticks, checks, changes, writes, crashes, removals, cleanups,
                 pureVars>>

(***************************************************************************)
(* Retention: cleanupPriceHistory(keepCount) (src/db/queries).             *)
(***************************************************************************)
MaxCleanups == 1
KeepCounts == 0..2

\* The rows of product p with ROW_NUMBER() OVER (PARTITION BY product_id
\* ORDER BY checked_at DESC) <= keepCount, as positions in the history of p:
\* the order among rows with the same checked_at is not defined by the
\* statement, so every set of keepCount rows that no other row is newer than
\* may be the one kept.
KeptRows(p, keepCount) ==
  LET h == price_history[p]
      k == IF keepCount < Len(h) THEN keepCount ELSE Len(h)
  IN  {K \in SUBSET (1..Len(h)) :
         /\ Cardinality(K) = k
         /\ \A i \in K, j \in (1..Len(h)) \ K : h[i].checked_at >= h[j].checked_at}

\* The entries of h at the positions of K, in the order of h.
Restrict(h, K) ==
  LET F[i \in 0..Len(h)] ==
        IF i = 0 THEN <<>>
        ELSE IF i \in K THEN Append(F[i - 1], h[i]) ELSE F[i - 1]
  IN  F[Len(h)]

CleanupKeepsOldest(keepCount, kept) ==
  [rows |-> [p \in Products |->
               SubSeq(price_history[p], 1, Cardinality(kept[p]))],
   changes |-> 0]

\* DELETE FROM price_history WHERE id NOT IN (the rows kept); the result is
\* the number of rows deleted.
cleanupPriceHistory(keepCount, kept) ==
  [rows |-> [p \in Products |-> Restrict(price_history[p], kept[p])],
   changes |-> LET Deleted[S \in SUBSET Products] ==
                     IF S = {} THEN 0
                     ELSE LET p == CHOOSE q \in S : TRUE
                          IN  Len(price_history[p]) - Cardinality(kept[p])
                                + Deleted[S \ {p}]
               IN  Deleted[Products]]

\* A call of cleanupPriceHistory completes.
Cleanup(keepCount) ==
  /\ Len(cleanups) < MaxCleanups
  /\ \E ok \in BOOLEAN :
       Fault(~ok) /\
       IF ok
         THEN \E kept \in [Products ->
                           SUBSET UNION {1..Len(price_history[p]) : p \in Products}] :
                /\ \A p \in Products : kept[p] \in KeptRows(p, keepCount)
                /\ LET r == cleanupPriceHistory(keepCount, kept)
                   IN  /\ price_history' = r.rows
                       /\ cleanups' = Append(cleanups,
                              [keepCount |-> keepCount, changes |-> r.changes])
         ELSE UNCHANGED <<price_history, cleanups>>
  /\ UNCHANGED <<users, tracked_products, sweepVars, check, track, now, ticks, checks,
                 quotes, changes, writes, crashes, removals, pureVars>>

(***************************************************************************)
(* The /delete command: handleDelete (src/bot/commands.js) on top of       *)
(* deleteTrackedProduct (src/db/queries).                                  *)
(***************************************************************************)
MaxDeletes == 2

DeleteWithoutOwnerCheck(productId, userId) ==
  [rows |-> [tracked_products EXCEPT ![productId].is_active = FALSE],
   deleted |-> TRUE]

\* UPDATE tracked_products SET is_active = 0 WHERE id = ? AND user_id = ?;
\* the result is changes > 0.
deleteTrackedProduct(productId, userId) ==
  LET matched == {p \in Products :
                    p = productId /\ tracked_products[p].user_id = userId}
  IN  [rows |-> [p \in Products |->
                   IF p \in matched
                   THEN [tracked_products[p] EXCEPT !.is_active = FALSE]
                   ELSE tracked_products[p]],
       deleted |-> matched # {}]

\* Where each invocation of the sweep stands: its run and its current item.
Progress == [s \in Sweeps |-> [run |-> sweep[s].run, idx |-> sweep[s].idx]]

\* Lines 548-569: the sender's user row is read (its id never changes), then
\* the statement runs; a rejected statement lands in the catch of line 571.
handleDelete(u, productId) ==
  /\ Len(removals) < MaxDeletes
  /\ \E ok \in BOOLEAN :
       Fault(~ok) /\
       IF ok
         THEN LET r == deleteTrackedProduct(productId, u)
              IN  /\ tracked_products' = r.rows
                  /\ removals' = Append(removals,
                         [productId |-> productId, userId |-> u,
                          deleted |-> r.deleted, progress |-> Progress])
         ELSE UNCHANGED <<tracked_products, removals>>
  /\ UNCHANGED <<users, price_history, sweepVars, check, track, now, ticks, checks,
                 quotes, changes, writes, crashes, cleanups, pureVars>>

(***************************************************************************)
(* The process dies while a sweep is running (a kill, or process.exit in   *)
(* the SIGINT and SIGTERM handlers of the entry script) and is started     *)
(* again: what lived in memory is gone (the frames of the running          *)
(* functions, runStats, the callbacks that were due), the rows written so  *)
(* far stay, as each statement is committed on its own.                    *)
(***************************************************************************)
Crash ==
  /\ crashes < MaxCrashes
  /\ \E s \in Sweeps : sweep[s].pc \notin {"idle", "done"}
  /\ crashes' = crashes + 1
  /\ sweep' = [s \in Sweeps |-> IdleSweep]
  /\ runStats' = ZeroStats
  /\ check' = IdleCheck
  /\ track' = [h \in Handlers |-> IdleTrack]
  /\ due' = {}
  /\ UNCHANGED <<dbVars, slots, now, ticks, runs, checks, faults, sent, alerts, quotes,
                 changes, writes, removals, cleanups, pureVars>>

(***************************************************************************)
(* SIGINT or SIGTERM: the handler of the entry script stops the polling    *)
(* of the bot, stops the two cron jobs (stopScheduler) and calls           *)
(* process.exit(0).  The process is gone: no callback runs any more and    *)
(* the functions in flight are never resumed; the rows written stay.       *)
(***************************************************************************)
stopScheduler == {}

Shutdown ==
  /\ slots # {}
  /\ slots' = stopScheduler
  /\ due' = {}
  /\ sweep' = [s \in Sweeps |-> IdleSweep]
  /\ check' = IdleCheck
  /\ track' = [h \in Handlers |-> IdleTrack]
  /\ UNCHANGED <<dbVars, runStats, now, ticks, runs, checks, faults, sent, alerts, quotes,
                 changes, writes, crashes, removals, cleanups, pureVars>>

(***************************************************************************)
(* The initial state: Sunday 9 AM, both cron expressions match; every      *)
(* product was created, with a scraped price, and last checked a week ago. *)
(***************************************************************************)
InitialPrice == 100
Targets == {0, 95, 100}
StartTime == 7 * MinutesPerDay + NineAM

InitUsers ==
  [u \in Users |-> IF u = 1
      THEN [plan |-> "PRO", check_interval |-> "DAILY", max_products |-> 10,
            is_active |-> TRUE]
      ELSE [plan |-> "FREE", check_interval |-> "WEEKLY", max_products |-> 1,
            is_active |-> TRUE]]

\* createTrackedProduct stores the scraped price and last_checked_at = now:
\* the products of `fresh` were tracked half a day ago, the others were last
\* checked a week ago.
InitProducts(owner, target, active, fresh) ==
  [p \in Products |->
     [user_id |-> owner[p], current_price |-> InitialPrice,
      target_price |-> target[p], last_alert_price |-> 0,
      last_alerted_at |-> <<>>,
      last_checked_at |-> IF p \in fresh THEN <<StartTime - TickMinutes>>
                          ELSE <<StartTime - 7 * MinutesPerDay>>,
      is_active |-> p \in active]]

NoCall == [fn |-> "none"]

\* The system with the products of `active` tracked (the others were removed),
\* owned by users of `owners`, with targets of `targets` (0: none was set;
\* /setprice accepts any positive one), and `inFlight` sweep invocations
\* possible; the products of `fresh` were tracked half a day ago.
InitSystem(active, owners, targets, fresh, inFlight) ==
  /\ users = InitUsers
  /\ \E owner \in [Products -> owners], target \in [Products -> targets \cup {0}] :
       /\ \A p \in Products \ active : target[p] = 0
       /\ tracked_products = InitProducts(owner, target, active, fresh)
  /\ price_history = [p \in Products |-> <<>>]
  /\ runStats = ZeroStats
  /\ sweep = [s \in Sweeps |-> IdleSweep]
  /\ check = IdleCheck
  /\ track = [h \in Handlers |-> IdleTrack]
  /\ slots = inFlight
  /\ now = StartTime
  /\ ticks = 0
  /\ due = CronMatches(StartTime)
  /\ runs = 0
  /\ checks = 0
  /\ faults = 0
  /\ sent = {}
  /\ alerts = {}
  /\ quotes = [p \in Products |-> {InitialPrice}]
  /\ changes = [p \in Products |-> 0]
  /\ writes = [p \in Products |-> 0]
  /\ crashes = 0
  /\ removals = <<>>
  /\ cleanups = <<>>

(***************************************************************************)
(* Specifications.                                                         *)
(*   Spec        the scheduler alone: one sweep at a time over the         *)
(*               products of a DAILY user, the clock moving between them.  *)
(*   SpecCheck   the scheduler and one /check command of the same user.    *)
(*   SpecOverlap the two cron callbacks of Sunday 9 AM in flight together  *)
(*               while a FREE user may run /upgrade.                       *)
(***************************************************************************)
SweepStep ==
  \/ \E s \in Sweeps, interval \in {"DAILY", "WEEKLY"} : StartSweep(s, interval)
  \/ \E s \in Sweeps : PacingDelay(s)
  \/ \E s \in Sweeps : ScrapeAttempt(s)
  \/ \E s \in Sweeps : UpdatePrice(s)
  \/ \E s \in Sweeps : RecordHistory(s)
  \/ \E s \in Sweeps : SendNotification(s)
  \/ \E s \in Sweeps : RecordAlert(s)

CheckStep ==
  \/ \E u \in Users : StartCheck(u)
  \/ CheckDelay
  \/ CheckScrape
  \/ CheckUpdate
  \/ CheckHistory

Init ==
  /\ InitSystem(Products, {1}, {100}, {NumProducts}, {1})
  /\ call = NoCall
  /\ ret = NoCall

Next ==
  \/ SweepStep
  \/ Tick

Spec == Init /\ [][Next]_vars

InitCheck ==
  /\ InitSystem({1, 2}, {1}, {}, {}, {1})
  /\ call = NoCall
  /\ ret = NoCall

NextCheck ==
  \/ SweepStep
  \/ CheckStep

SpecCheck == InitCheck /\ [][NextCheck]_vars

InitOverlap ==
  /\ InitSystem({1, 2}, {2}, {95}, {}, {1, 2})
  /\ call = NoCall
  /\ ret = NoCall

NextOverlap ==
  \/ SweepStep
  \/ \E u \in Users : handleUpgrade(u)

SpecOverlap == InitOverlap /\ [][NextOverlap]_vars

\* The scheduler over two products of a DAILY user, with a process that may
\* die during a sweep.
InitCrash ==
  /\ InitSystem({1, 2}, {1}, {100}, {}, {1})
  /\ call = NoCall
  /\ ret = NoCall

NextCrash ==
  \/ SweepStep
  \/ Tick
  \/ Crash

SpecCrash == InitCrash /\ [][NextCrash]_vars

\* The scheduler over two products of a DAILY user when every awaited call
\* settles (returns or throws): the event loop then resumes the function that
\* awaits it.
SweepProgress(s) ==
  \/ PacingDelay(s)
  \/ ScrapeAttempt(s)
  \/ UpdatePrice(s)
  \/ RecordHistory(s)
  \/ SendNotification(s)
  \/ RecordAlert(s)

CallsSettle == \A s \in Sweeps : WF_vars(SweepProgress(s))

SpecLive == InitCrash /\ [][Next]_vars /\ CallsSettle

\* The two cron callbacks of Sunday 9 AM, one after the other, over the two
\* products of a DAILY user (a third one was removed earlier), while this user
\* and another one may send /delete.
InitDelete ==
  /\ InitSystem({1, 2}, {1}, {}, {}, {1})
  /\ call = NoCall
  /\ ret = NoCall

NextDelete ==
  \/ SweepStep
  \/ \E u \in Users, productId \in Products : handleDelete(u, productId)

SpecDelete == InitDelete /\ [][NextDelete]_vars

\* The scheduler over two products of a DAILY user, and a retention run.
InitHistory ==
  /\ InitSystem({1, 2}, {1}, {}, {}, {1})
  /\ call = NoCall
  /\ ret = NoCall

NextHistory ==
  \/ SweepStep
  \/ Tick
  \/ \E keepCount \in KeepCounts : Cleanup(keepCount)

SpecHistory == InitHistory /\ [][NextHistory]_vars

\* The scheduler over two products of a DAILY user, with a signal that may
\* arrive at any moment; the clock of node-cron runs while the process does.
NextShutdown ==
  \/ SweepStep
  \/ slots # {} /\ Tick
  \/ Shutdown

SpecShutdown == InitCrash /\ [][NextShutdown]_vars

\* The scheduler over two products of a user whose check interval, as that
\* of any user, may be set to any of CHECK_INTERVALS.
InitInterval ==
  /\ InitSystem({1, 2}, {2}, {}, {}, {1})
  /\ call = NoCall
  /\ ret = NoCall

NextInterval ==
  \/ SweepStep
  \/ Tick
  \/ \E u \in Users, checkInterval \in CHECK_INTERVALS : PlanChange(u, checkInterval)

SpecInterval == InitInterval /\ [][NextInterval]_vars

\* The /track commands alone: nothing is tracked yet, user 1 is on PRO, user 2
\* on FREE.
TrackStep ==
  \/ \E h \in Handlers, u \in Users : TrackFindUser(h, u)
  \/ \E h \in Handlers : TrackCount(h)
  \/ \E h \in Handlers : TrackScrape(h)
  \/ \E h \in Handlers : TrackCreate(h)

InitTrack ==
  /\ InitSystem({}, {2}, {}, {}, {})
  /\ call = NoCall
  /\ ret = NoCall

NextTrack == TrackStep

SpecTrack == InitTrack /\ [][NextTrack]_vars

(***************************************************************************)
(* The decision functions and the eligibility function applied to          *)
(* arguments drawn from grids around their thresholds; the system itself   *)
(* is at rest.                                                             *)
(***************************************************************************)
sysVars == <<dbVars, sweepVars, check, track, now, ticks, checks, faults, quotes, changes,
            writes, crashes, removals, cleanups>>

\* Prices in hundredths; 0 stands for an absent (falsy) price, target or
\* last-alerted price.
DecidePrices == {0, 90, 95, 98, 99, 100, 197, 200}

InitDecide ==
  /\ InitSystem({}, {1}, {}, {}, {})
  /\ \E o \in DecidePrices, n \in DecidePrices, tgt \in DecidePrices,
        la \in DecidePrices :
       call = [fn |-> "decide", oldPrice |-> o, newPrice |-> n,
               product |-> [target_price |-> tgt, last_alert_price |-> la]]
  /\ ret = NoCall

ApplyShouldSendNotification ==
  /\ call.fn = "decide"
  /\ ret.fn # "shouldSendNotification"
  /\ ret' = [fn |-> "shouldSendNotification",
             val |-> shouldSendNotification(call.product, call.oldPrice,
                                            call.newPrice)]
  /\ UNCHANGED <<sysVars, call>>

ApplyShouldTriggerAlert ==
  /\ call.fn = "decide"
  /\ ret.fn # "shouldTriggerAlert"
  /\ ret' = [fn |-> "shouldTriggerAlert",
             val |-> shouldTriggerAlert(call.product, call.oldPrice, call.newPrice)]
  /\ UNCHANGED <<sysVars, call>>

NextDecide ==
  \/ ApplyShouldSendNotification
  \/ ApplyShouldTriggerAlert

SpecDecide == InitDecide /\ [][NextDecide]_vars

\* Instants: Sunday 9:00 and 23:59, Monday 9:00, Saturday 9:00.
EligInstants ==
  {StartTime, StartTime + (MinutesPerDay - NineAM) - 1, StartTime + MinutesPerDay,
   StartTime + 6 * MinutesPerDay}

\* Minutes since the last check, around the three thresholds.
EligAges ==
  {HourlyMinMinutes - 1, HourlyMinMinutes, DailyMinMinutes - 60,
   DailyMinMinutes - 1, DailyMinMinutes, DailyMinMinutes + 1,
   WeeklyMinMinutes - 1, WeeklyMinMinutes, WeeklyMinMinutes + 1}

EligIntervals == {"", "HOURLY", "DAILY", "daily", "WEEKLY", "MONTHLY"}
EligPlans == {"", "FREE", "PRO", "pro"}

InitElig ==
  /\ InitSystem({}, {1}, {}, {}, {})
  /\ \E t \in EligInstants, iv \in EligIntervals, pl \in EligPlans :
       \E last \in {<<>>} \cup {<<t - a>> : a \in EligAges} :
         call = [fn |-> "eligible", t |-> t,
                 user |-> [plan |-> pl, check_interval |-> iv],
                 product |-> [last_checked_at |-> last]]
  /\ ret = NoCall

ApplyIsEligibleForCheck ==
  /\ call.fn = "eligible"
  /\ ret.fn # "isEligibleForCheck"
  /\ ret' = [fn |-> "isEligibleForCheck",
             val |-> isEligibleForCheck(call.user, call.product, call.t)]
  /\ UNCHANGED <<sysVars, call>>

NextElig == ApplyIsEligibleForCheck

SpecElig == InitElig /\ [][NextElig]_vars

(***************************************************************************)
(* scrapeWithRetry(url, retries) of cronJobs.js on its own, for every      *)
(* retry bound up to MaxRetries and every sequence of fetcher outcomes: a  *)
(* throw, a quote without a usable price, a quote with a price.  The frame *)
(* counts the calls of the fetcher and logs their outcomes.                *)
(***************************************************************************)
FetchResults ==
  {[threw |-> TRUE, price |-> 0], [threw |-> FALSE, price |-> 0]}
    \cup {[threw |-> FALSE, price |-> x] : x \in FetchPrices}

\* One iteration of the loop of lines 410-429 in which the fetcher gave
\* `result`, with the code after the loop when it was the last one.  The
\* value returned is <<price>> for a quote and <<>> for null.
RetryOneAttemptShort(c, result) ==
  LET made == [c EXCEPT !.calls = @ + 1, !.log = Append(@, result),
                        !.attempt = @ + 1]
  IN  IF ~result.threw /\ result.price # 0
        THEN [frame |-> made,
              ret |-> [fn |-> "scrapeWithRetry", val |-> <<result.price>>]]
      ELSE IF c.attempt + 1 < c.retries
        THEN [frame |-> made, ret |-> NoCall]
      ELSE [frame |-> made, ret |-> [fn |-> "scrapeWithRetry", val |-> <<>>]]

RetryReturnsAnyQuote(c, result) ==
  LET made == [c EXCEPT !.calls = @ + 1, !.log = Append(@, result),
                        !.attempt = @ + 1]
  IN  IF ~result.threw
        THEN [frame |-> made,
              ret |-> [fn |-> "scrapeWithRetry", val |-> <<result.price>>]]
      ELSE IF c.attempt < c.retries
        THEN [frame |-> made, ret |-> NoCall]
      ELSE [frame |-> made, ret |-> [fn |-> "scrapeWithRetry", val |-> <<>>]]

scrapeWithRetry(c, result) ==
  LET made == [c EXCEPT !.calls = @ + 1, !.log = Append(@, result),
                        !.attempt = @ + 1]
  IN  IF ~result.threw /\ result.price # 0
        THEN [frame |-> made,
              ret |-> [fn |-> "scrapeWithRetry", val |-> <<result.price>>]]
      ELSE IF c.attempt < c.retries
        THEN [frame |-> made, ret |-> NoCall]
      ELSE [frame |-> made, ret |-> [fn |-> "scrapeWithRetry", val |-> <<>>]]

InitRetry ==
  /\ InitSystem({}, {1}, {}, {}, {})
  /\ \E r \in 0..MaxRetries :
       call = [fn |-> "scrapeWithRetry", retries |-> r, attempt |-> 0,
               calls |-> 0, log |-> <<>>]
  /\ ret = NoCall

\* The awaited scrapeAmazonProduct of one attempt completes (for a retry,
\* after the delay of line 414).
RetryAttempt ==
  /\ call.fn = "scrapeWithRetry"
  /\ ret = NoCall
  /\ \E result \in FetchResults :
       LET r == scrapeWithRetry(call, result)
       IN  /\ call' = r.frame
           /\ ret' = r.ret
  /\ UNCHANGED sysVars

NextRetry == RetryAttempt

SpecRetry == InitRetry /\ [][NextRetry]_vars

(***************************************************************************)
(* calculatePriceChange(oldPrice, newPrice) of priceHelper.js on its own,  *)
(* over a grid of prices in hundredths: a negative price, 0 for a missing  *)
(* one, neighbours one and two hundredths apart, and drops of exactly 2    *)
(* and 10 percent.                                                         *)
(***************************************************************************)
ChangePrices == {-100, 0, 1, 98, 99, 100, 101, 102, 900, 1000}

InitChange ==
  /\ InitSystem({}, {1}, {}, {}, {})
  /\ \E o \in ChangePrices, n \in ChangePrices :
       call = [fn |-> "change", oldPrice |-> o, newPrice |-> n]
  /\ ret = NoCall

ApplyCalculatePriceChange ==
  /\ call.fn = "change"
  /\ ret = NoCall
  /\ ret' = [fn |-> "calculatePriceChange",
             val |-> calculatePriceChange(call.oldPrice, call.newPrice)]
  /\ UNCHANGED <<sysVars, call>>

NextChange == ApplyCalculatePriceChange

SpecChange == InitChange /\ [][NextChange]_vars

(***************************************************************************)
(* getTrendLabel(priceHistory, entries = 5) of priceHelper.js.  The        *)
(* history is the sequence of the rows' prices, newest first, as           *)
(* getPriceHistory returns them; only the label of the result is kept.     *)
(***************************************************************************)
TrendOverWholeHistory(priceHistory) ==
  IF Len(priceHistory) < 2 THEN "STABLE"
  ELSE LET newestPrice == priceHistory[1]
           oldestPrice == priceHistory[Len(priceHistory)]
       IN  IF oldestPrice = 0 \/ newestPrice = 0 THEN "STABLE"
           ELSE IF (oldestPrice - newestPrice) * 100 > TrendThreshold * oldestPrice
             THEN "DOWN"
           ELSE IF (oldestPrice - newestPrice) * 100 < -TrendThreshold * oldestPrice
             THEN "UP"
           ELSE "STABLE"

getTrendLabel(priceHistory) ==
  IF Len(priceHistory) < 2 THEN "STABLE"
  ELSE LET n == IF TrendEntries < Len(priceHistory)
                  THEN TrendEntries ELSE Len(priceHistory)
           recentPrices == SubSeq(priceHistory, 1, n)
           newestPrice == recentPrices[1]
           oldestPrice == recentPrices[Len(recentPrices)]
       IN  IF oldestPrice = 0 \/ newestPrice = 0 THEN "STABLE"
           ELSE IF (oldestPrice - newestPrice) * 100 > TrendThreshold * oldestPrice
             THEN "DOWN"
           ELSE IF (oldestPrice - newestPrice) * 100 < -TrendThreshold * oldestPrice
             THEN "UP"
           ELSE "STABLE"

\* Prices a history row can hold (addPriceHistory is only called with a
\* scraped price that passed the price check): moves of exactly 2 percent
\* and of more in both directions.
TrendPrices == {900, 950, 980, 1000, 1020}

Histories ==
  UNION {[1..n -> TrendPrices] : n \in 0..TrendMaxLen}

InitTrend ==
  /\ InitSystem({}, {1}, {}, {}, {})
  /\ \E h \in Histories : call = [fn |-> "trend", priceHistory |-> h]
  /\ ret = NoCall

ApplyGetTrendLabel ==
  /\ call.fn = "trend"
  /\ ret = NoCall
  /\ ret' = [fn |-> "getTrendLabel", val |-> getTrendLabel(call.priceHistory)]
  /\ UNCHANGED <<sysVars, call>>

NextTrend == ApplyGetTrendLabel

SpecTrend == InitTrend /\ [][NextTrend]_vars

\* The grouping of the sweep followed by the eligibility test (lines 177-192
\* and 206) applied to one loaded row, over the same grid of plans, intervals,
\* instants and ages.
SweepInterval(row) == EffectiveInterval(GroupUser(row))

InitGroup ==
  /\ InitSystem({}, {1}, {}, {}, {})
  /\ \E t \in EligInstants, iv \in EligIntervals, pl \in EligPlans :
       \E last \in {<<>>} \cup {<<t - a>> : a \in EligAges} :
         call = [fn |-> "group", t |-> t,
                 row |-> [plan |-> pl, check_interval |-> iv, last_checked_at |-> last]]
  /\ ret = NoCall

ApplyGroupAndEligibility ==
  /\ call.fn = "group"
  /\ ret = NoCall
  /\ ret' = [fn |-> "group", interval |-> SweepInterval(call.row),
             eligible |-> isEligibleForCheck(GroupUser(call.row), call.row, call.t)]
  /\ UNCHANGED <<sysVars, call>>

NextGroup == ApplyGroupAndEligibility

SpecGroup == InitGroup /\ [][NextGroup]_vars

(***************************************************************************)
(* Properties.                                                             *)
(***************************************************************************)
ErrorTags == {"nofetch", "updfail", "histfail", "sendfail", "alertfail"}

\* The frames of the sweeps whose candidate load succeeded and which returned.
Finished == {s \in Sweeps : sweep[s].pc = "done" /\ ~sweep[s].loadFailed}

\* C1: in a sweep whose candidate load succeeded, whatever failed while an
\* item was processed, every later item is evaluated for eligibility and, if
\* eligible, fetched: when the sweep returns no item is left unprocessed, an
\* item was skipped exactly when it was not eligible, and every other item
\* was fetched (a price was obtained or every attempt failed).
C1_FailureIsolation ==
  \A s \in Sweeps :
    LET w == sweep[s]
    IN  /\ w.pc \notin {"idle", "done"} =>
             /\ w.idx >= 1
             /\ \A i \in 1..(w.idx - 1) : w.outcome[i] # "pending"
        /\ s \in Finished =>
             \A i \in 1..Len(w.items) :
               /\ w.outcome[i] # "pending"
               /\ w.evalAt[i] # <<>>
               /\ w.outcome[i] = "skipped" <=>
                    ~isEligibleForCheck(GroupUser(w.items[i]), w.items[i],
                                        w.evalAt[i][1])
               /\ w.outcome[i] # "skipped" =>
                    (w.outcome[i] = "nofetch" \/ w.got[i] # 0)

\* A sweep returned in which an item failed and a later item was fetched and
\* its price stored.
C1_Witness ==
  \E s \in Finished :
    \E i \in 1..Len(sweep[s].items), j \in 1..Len(sweep[s].items) :
      /\ i < j
      /\ sweep[s].outcome[i] \in ErrorTags
      /\ sweep[s].outcome[j] \in {"checked", "notified"}

\* The items of frame w with the outcome tags of T.
ItemsWith(w, T) == {i \in 1..Len(w.items) : w.outcome[i] \in T}

\* C2: a sweep that ran alone over n eligible candidates, in which the fetch
\* of exactly k candidates failed on every attempt and every persistence call
\* succeeded, ends with productsChecked = n - k and errors = k, and every
\* candidate whose fetch succeeded has the fetched price as its current price
\* and as its newest history entry.
C2_SweepStatistics ==
  \A s \in Finished :
    LET w == sweep[s]
        n == Len(w.items)
        k == Cardinality(ItemsWith(w, {"nofetch"}))
    IN  ItemsWith(w, {"skipped", "updfail", "histfail", "alertfail"}) = {} =>
          /\ runStats.productsChecked = n - k
          /\ runStats.errors = k
          /\ \A i \in ItemsWith(w, {"checked", "notified", "sendfail"}) :
               /\ tracked_products[w.items[i].id].current_price = w.got[i]
               /\ price_history[w.items[i].id] # <<>>
               /\ price_history[w.items[i].id][Len(price_history[w.items[i].id])].price
                    = w.got[i]

\* Three candidates, the fetch of the second failed: checked = 2, errors = 1,
\* the third was processed.
C2_Witness ==
  \E s \in Finished :
    /\ Len(sweep[s].items) = 3
    /\ sweep[s].outcome[1] \in {"checked", "notified"}
    /\ sweep[s].outcome[2] = "nofetch"
    /\ sweep[s].outcome[3] \in {"checked", "notified"}
    /\ runStats.productsChecked = 2
    /\ runStats.errors = 1
    /\ tracked_products[sweep[s].items[3].id].current_price = sweep[s].got[3]

C5_NoSecondAlertAtSamePrice ==
  \A a \in alerts, e \in sent :
    (a.product = e.product /\ e.run > a.run) => e.newPrice < a.price

\* The sweep after the one that alerted fetched the same price again and sent
\* nothing.
C5_Witness ==
  \E a \in alerts, s \in Finished :
    \E i \in 1..Len(sweep[s].items) :
      /\ sweep[s].run > a.run
      /\ sweep[s].items[i].id = a.product
      /\ sweep[s].items[i].last_alert_price = a.price
      /\ sweep[s].got[i] = a.price
      /\ sweep[s].outcome[i] = "checked"
      /\ \A e \in sent : e.product = a.product => e.run <= a.run

\* C6: at most one notification is sent per product for one observed price
\* change: two sweeps never both send the notification for the same change
\* (same product, same old and new price, no price change in between).
C6_AtMostOneNotificationPerChange ==
  \A e1 \in sent, e2 \in sent :
    (/\ e1.product = e2.product
     /\ e1.oldPrice = e2.oldPrice
     /\ e1.newPrice = e2.newPrice
     /\ e1.epoch = e2.epoch) => e1.run = e2.run

\* C8: a sweep sends no notification for a product whose fetched price did
\* not drop by more than 0.01.
C8_NoNotificationWithoutDrop ==
  \A e \in sent : e.oldPrice - e.newPrice > 1

\* C4: for a product with a last-alerted price L, whatever the old price and
\* the target, neither shouldSendNotification nor shouldTriggerAlert decides
\* to alert when newPrice >= L.
C4_AlertSuppression ==
  LET L == call.product.last_alert_price
  IN  (call.fn = "decide" /\ L # 0 /\ call.newPrice >= L) =>
        /\ ret.fn = "shouldSendNotification" => ~ret.val.notify
        /\ ret.fn = "shouldTriggerAlert" => ~ret.val.shouldAlert

\* Last alert at 100, target 200 reached, price back at 100 after 200: the
\* sweep's decision is not to notify.
C4_Witness ==
  /\ ret.fn = "shouldSendNotification"
  /\ call.product.last_alert_price = 100
  /\ call.product.target_price = 200
  /\ call.oldPrice = 200
  /\ call.newPrice = 100
  /\ ~ret.val.notify

\* C7: for a product with a target T and no last-alerted price, when the
\* price dropped by more than 0.01 to a price at or below T, shouldTriggerAlert
\* decides alert with priority high and shouldSendNotification decides to
\* notify for the reached target, also when the drop is below
\* MIN_DROP_PERCENT.
C7_TargetPriority ==
  LET T == call.product.target_price
  IN  (/\ call.fn = "decide"
       /\ T # 0
       /\ call.product.last_alert_price = 0
       /\ call.newPrice # 0
       /\ call.oldPrice - call.newPrice > 1
       /\ call.newPrice <= T) =>
        /\ ret.fn = "shouldTriggerAlert" =>
             (ret.val.shouldAlert /\ ret.val.priority = "high")
        /\ ret.fn = "shouldSendNotification" =>
             (ret.val.notify /\ ret.val.reason = "Target price reached!")

\* 200 -> 197 is a drop of 1.5 percent that reaches the target 197.
C7_Witness ==
  /\ ret.fn = "shouldTriggerAlert"
  /\ call.product.target_price = 197
  /\ call.product.last_alert_price = 0
  /\ call.oldPrice = 200
  /\ call.newPrice = 197
  /\ (call.oldPrice - call.newPrice) * 100 < MIN_DROP_PERCENT * call.oldPrice
  /\ ret.val.priority = "high"

\* C9: for a user whose effective interval is DAILY, isEligibleForCheck says
\* eligible exactly when the product was never checked or was last checked at
\* least 20 hours before now.
C9_DailyEligibility ==
  (ret.fn = "isEligibleForCheck" /\ EffectiveInterval(call.user) = "DAILY") =>
    (ret.val <=> (\/ call.product.last_checked_at = <<>>
                  \/ call.t - call.product.last_checked_at[1] >= 20 * 60))

\* Last checked 20 hours and one minute ago: eligible.
C9_Witness ==
  /\ ret.fn = "isEligibleForCheck"
  /\ EffectiveInterval(call.user) = "DAILY"
  /\ call.product.last_checked_at = <<call.t - (20 * 60 + 1)>>
  /\ ret.val

\* C10: for a user whose effective interval is neither HOURLY nor DAILY,
\* isEligibleForCheck says eligible exactly when now is a Sunday and the
\* product was never checked or was last checked at least 6 days before now.
C10_WeeklyEligibility ==
  (ret.fn = "isEligibleForCheck"
     /\ EffectiveInterval(call.user) \notin {"HOURLY", "DAILY"}) =>
    (ret.val <=> (/\ (call.t \div (24 * 60)) % 7 = 0
                  /\ \/ call.product.last_checked_at = <<>>
                     \/ call.t - call.product.last_checked_at[1] >= 6 * 24 * 60))

\* An unrecognised interval on a Sunday, last check exactly 6 days ago:
\* eligible.
C10_Witness ==
  /\ ret.fn = "isEligibleForCheck"
  /\ call.user.check_interval = "MONTHLY"
  /\ call.t = StartTime
  /\ call.product.last_checked_at = <<call.t - 6 * 24 * 60>>
  /\ ret.val

\* C11: for a user whose effective interval is HOURLY, isEligibleForCheck
\* says eligible exactly when the product was never checked or was last
\* checked at least 60 minutes before now.
C11_HourlyEligibility ==
  (ret.fn = "isEligibleForCheck" /\ EffectiveInterval(call.user) = "HOURLY") =>
    (ret.val <=> (\/ call.product.last_checked_at = <<>>
                  \/ call.t - call.product.last_checked_at[1] >= 60))

\* Last checked 59 minutes ago on an HOURLY interval: not eligible.
C11_Witness ==
  /\ ret.fn = "isEligibleForCheck"
  /\ EffectiveInterval(call.user) = "HOURLY"
  /\ call.product.last_checked_at = <<call.t - 59>>
  /\ ~ret.val

\* A fetcher outcome scrapeWithRetry accepts: a quote with a usable price.
Usable(result) == ~result.threw /\ result.price # 0

\* C12: scrapeWithRetry(url, maxRetries) calls the fetcher at most
\* maxRetries + 1 times, exactly maxRetries + 1 times when no attempt gave a
\* usable price, and makes no call after the first attempt that gave a quote
\* with a usable price, which it returns.
C12_RetryBound ==
  call.fn = "scrapeWithRetry" =>
    LET n == Len(call.log)
    IN  /\ call.calls = n
        /\ n <= call.retries + 1
        /\ \A i \in 1..(n - 1) : ~Usable(call.log[i])
        /\ (n > 0 /\ Usable(call.log[n])) => ret.val = <<call.log[n].price>>
        /\ (ret = NoCall) => (n <= call.retries /\ \A i \in 1..n : ~Usable(call.log[i]))
        /\ (ret # NoCall /\ \A i \in 1..n : ~Usable(call.log[i])) =>
             n = call.retries + 1

\* With three retries allowed, the second call gave a price: two calls made.
C12_Witness ==
  /\ call.fn = "scrapeWithRetry"
  /\ call.retries = 3
  /\ call.calls = 2
  /\ ret.fn = "scrapeWithRetry"
  /\ ret.val = <<90>>

\* C13: scrapeWithRetry returns (it has no path that throws), and it returns
\* null exactly when every one of the maxRetries + 1 attempts threw or gave a
\* quote without a usable price.
C13_NullIffAllFailed ==
  (call.fn = "scrapeWithRetry" /\ ret # NoCall) =>
    /\ ret.fn = "scrapeWithRetry"
    /\ ret.val = <<>> <=>
         /\ Len(call.log) = call.retries + 1
         /\ \A i \in 1..Len(call.log) : ~Usable(call.log[i])

\* One retry: the first attempt threw, the second gave a quote without a
\* price; null is returned.
C13_Witness ==
  /\ call.fn = "scrapeWithRetry"
  /\ call.retries = 1
  /\ call.log = <<[threw |-> TRUE, price |-> 0], [threw |-> FALSE, price |-> 0]>>
  /\ ret.fn = "scrapeWithRetry"
  /\ ret.val = <<>>

\* C14: for positive oldPrice and newPrice, calculatePriceChange gives
\* direction "down" exactly when oldPrice - newPrice exceeds 0.01 (one
\* hundredth), "up" exactly when it is below -0.01, and "unchanged" otherwise.
C14_Direction ==
  (ret.fn = "calculatePriceChange" /\ call.oldPrice > 0 /\ call.newPrice > 0) =>
    LET d == call.oldPrice - call.newPrice
    IN  /\ ret.val.direction = "down" <=> d > 1
        /\ ret.val.direction = "up" <=> d < -1
        /\ ret.val.direction = "unchanged" <=> (d <= 1 /\ d >= -1)

\* A fall of exactly one hundredth is inside the tolerance.
C14_Witness ==
  /\ ret.fn = "calculatePriceChange"
  /\ call.oldPrice = 100
  /\ call.newPrice = 99
  /\ ret.val.direction = "unchanged"

\* C15: calculatePriceChange reports isMeaningful exactly when the direction
\* is "down" and the fall is at least MIN_DROP_PERCENT percent of the old
\* price; it returns the neutral result (unchanged, not meaningful, zero
\* change) when either price is missing or not positive; and for
\* (1000, 900) it reports down, 10 percent, meaningful.
C15_Meaningful ==
  ret.fn = "calculatePriceChange" =>
    /\ ret.val.isMeaningful <=>
         /\ ret.val.direction = "down"
         /\ (call.oldPrice - call.newPrice) * 100 >= MIN_DROP_PERCENT * call.oldPrice
    /\ (call.oldPrice <= 0 \/ call.newPrice <= 0) =>
         /\ ret.val.direction = "unchanged"
         /\ ~ret.val.isMeaningful
         /\ ret.val.absoluteChange = 0
    /\ (call.oldPrice = 1000 /\ call.newPrice = 900) =>
         /\ ret.val.direction = "down"
         /\ ret.val.absoluteChange * 100 = 10 * call.oldPrice
         /\ ret.val.isMeaningful

\* A fall of exactly MIN_DROP_PERCENT percent is meaningful.
C15_Witness ==
  /\ ret.fn = "calculatePriceChange"
  /\ call.oldPrice = 100
  /\ (call.oldPrice - call.newPrice) * 100 = MIN_DROP_PERCENT * call.oldPrice
  /\ ret.val.isMeaningful

\* C16: over a newest-first history of at least 2 entries, getTrendLabel
\* compares the oldest and the newest price of the most recent
\* min(5, length) entries: DOWN when the fall from oldest to newest is more
\* than 2 percent of the oldest, UP when the rise is more than 2 percent,
\* STABLE otherwise; prices 1000, 950, 900 (oldest to newest) give DOWN.
C16_TrendLabel ==
  (ret.fn = "getTrendLabel" /\ Len(call.priceHistory) >= 2) =>
    LET h == call.priceHistory
        k == IF Len(h) < 5 THEN Len(h) ELSE 5
        newest == h[1]
        oldest == h[k]
    IN  /\ ret.val = "DOWN" <=> (oldest - newest) * 100 > 2 * oldest
        /\ ret.val = "UP" <=> (oldest - newest) * 100 < -2 * oldest
        /\ ret.val = "STABLE" <=>
             /\ (oldest - newest) * 100 <= 2 * oldest
             /\ (oldest - newest) * 100 >= -2 * oldest
        /\ h = <<900, 950, 1000>> => ret.val = "DOWN"

\* A history longer than the window whose sixth entry alone would make a
\* rise: the window of five is flat and the label is STABLE.
C16_Witness ==
  /\ ret.fn = "getTrendLabel"
  /\ call.priceHistory = <<1000, 1000, 1000, 1000, 1000, 900>>
  /\ ret.val = "STABLE"

\* C17: when the notifier fails for an item of a sweep, the failure is caught:
\* the stored price and history are left as they are, productsChecked and
\* errors do not move, a counter of failed notifications is incremented, and
\* the sweep goes on to the next item.
C17_NotifyFailureCounted ==
  [][\A s \in Sweeps :
       (sweep[s].pc = "send" /\ sweep'[s].outcome[sweep[s].idx] = "sendfail") =>
         /\ dbVars' = dbVars
         /\ runStats'.productsChecked = runStats.productsChecked
         /\ runStats'.errors = runStats.errors
         /\ \E f \in DOMAIN runStats \ {"productsChecked", "errors", "productsSkipped"} :
              runStats'[f] = runStats[f] + 1
         /\ sweep'[s].pc \in {"delay", "fetch", "done"}]_vars

\* C18: a persistence call that fails while a sweep processes an item
\* (updateProductPrice, addPriceHistory or updateAlertStatus) adds exactly one
\* to the errors of the sweep, and the sweep goes on to the next item.
C18_PersistenceFailureCounted ==
  [][\A s \in Sweeps :
       (/\ sweep[s].pc \in {"update", "history", "alert"}
        /\ sweep'[s].outcome[sweep[s].idx] \in {"updfail", "histfail", "alertfail"}) =>
         /\ runStats'.errors = runStats.errors + 1
         /\ sweep'[s].pc \in {"delay", "fetch", "done"}]_vars

\* C19: when loading the candidates fails at the start of a sweep, the sweep
\* is over at once: it holds no item and fetches nothing, the stored prices,
\* history and alert state, the notifications sent and the quotes fetched
\* are left as they were, and every counter is 0.
C19_LoadFailureAborts ==
  /\ [](\A s \in Sweeps :
          sweep[s].loadFailed =>
            /\ sweep[s].pc = "done"
            /\ sweep[s].items = <<>>
            /\ runStats = ZeroStats)
  /\ [][\A s \in Sweeps :
          (sweep'[s].loadFailed /\ sweep'[s] # sweep[s]) =>
            /\ dbVars' = dbVars
            /\ sent' = sent
            /\ alerts' = alerts
            /\ quotes' = quotes
            /\ runStats' = ZeroStats]_vars

\* A sweep whose load failed, after an earlier sweep had sent a notification.
C19_Witness ==
  \E s \in Sweeps :
    /\ sweep[s].loadFailed
    /\ sweep[s].pc = "done"
    /\ sent # {}

\* C20: at no time are two items being processed at once: while one sweep is
\* between the start of an item's fetch and the end of its persistence and
\* notification, no other sweep is inside an item of its own.
C20_NoOverlappingItems ==
  Cardinality({s \in Sweeps :
     sweep[s].pc \in {"fetch", "update", "history", "send", "alert"}}) <= 1

\* C21: each sweep has its own run statistics: at the step in which a sweep
\* returns, the counters (what getLastRunStats reads) count the items of this
\* sweep and of no other: productsChecked the items whose price and history
\* were stored, productsSkipped the items skipped, notificationsSent the
\* items notified (an item whose notification went out but whose alert state
\* could not be stored may or may not be among them), errors the items that
\* failed (a failed notification may or may not be among them).
C21_OwnRunStatistics ==
  [][\A s \in Sweeps :
       (sweep'[s].pc = "done" /\ sweep'[s] # sweep[s] /\ ~sweep'[s].loadFailed) =>
         LET w == sweep'[s]
         IN  /\ runStats'.productsChecked =
                  Cardinality(ItemsWith(w, {"checked", "notified", "sendfail",
                                            "alertfail"}))
             /\ runStats'.productsSkipped = Cardinality(ItemsWith(w, {"skipped"}))
             /\ runStats'.notificationsSent >= Cardinality(ItemsWith(w, {"notified"}))
             /\ runStats'.notificationsSent <=
                  Cardinality(ItemsWith(w, {"notified", "alertfail"}))
             /\ runStats'.errors >=
                  Cardinality(ItemsWith(w, {"nofetch", "updfail", "histfail"}))
             /\ runStats'.errors <= Cardinality(ItemsWith(w, ErrorTags))]_vars

\* The cap of user u: max_products when set, otherwise the plan's maxProducts.
EffectiveCap(u) ==
  IF users[u].max_products # 0 THEN users[u].max_products
  ELSE getUserPlan(users[u]).maxProducts

\* C22: in every reachable state the number of active tracked products of a
\* user is at most the user's effective cap, also when two /track commands of
\* the same user are in flight together.
C22_QuotaRespected ==
  \A u \in Users : countUserTrackedProducts(u) <= EffectiveCap(u)

\* The products a check has written the price of and not yet the history
\* entry: the item of a sweep or of /check between its two writes.
BetweenWrites ==
  {sweep[s].items[sweep[s].idx].id : s \in {x \in Sweeps : sweep[x].pc = "history"}}
    \cup (IF check.pc = "history" THEN {check.items[check.idx].id} ELSE {})

\* C23: every successful check appends exactly one history entry: for each
\* product that no check is in the middle of, the number of history entries
\* appended since creation equals the number of times a check wrote its
\* current price, and the newest entry holds the current price, also when a
\* persistence call fails.
C23_OneEntryPerCheck ==
  \A p \in Products \ BetweenWrites :
    /\ Len(price_history[p]) = writes[p]
    /\ writes[p] > 0 =>
         price_history[p][Len(price_history[p])].price = tracked_products[p].current_price

\* C24: when the process dies at any point of a sweep and no call fails, every
\* item whose processing had begun is left completely written: once the
\* process is up again and no sweep is running, every price that a check
\* wrote has its history entry, which holds the current price, every
\* notification that was sent has its alert state stored, and no product was
\* notified twice at the same price.
C24_CrashLeavesItemsComplete ==
  (faults = 0 /\ \A s \in Sweeps : sweep[s].pc \in {"idle", "done"}) =>
    /\ \A p \in Products :
         /\ Len(price_history[p]) = writes[p]
         /\ writes[p] > 0 =>
              price_history[p][Len(price_history[p])].price = tracked_products[p].current_price
    /\ \A m \in sent :
         \E a \in alerts : a.product = m.product /\ a.price = m.newPrice /\ a.run = m.run
    /\ \A m1 \in sent, m2 \in sent :
         (m1.product = m2.product /\ m1.newPrice = m2.newPrice) => m1.run = m2.run

\* C25: when the retry wrapper returns null for an item of a sweep, the stored
\* price, last-checked-at, history and alert state are left as they were, no
\* notification is sent for it, errors grows by exactly one and
\* productsChecked does not change.
C25_NullQuoteFrame ==
  [][\A s \in Sweeps :
       (sweep[s].pc = "fetch" /\ sweep'[s].outcome[sweep[s].idx] = "nofetch") =>
         /\ dbVars' = dbVars
         /\ sent' = sent
         /\ alerts' = alerts
         /\ runStats'.errors = runStats.errors + 1
         /\ runStats'.productsChecked = runStats.productsChecked
         /\ runStats'.priceDrops = runStats.priceDrops
         /\ runStats'.notificationsSent = runStats.notificationsSent]_vars

\* A sweep returned in which the fetch of an item failed on every attempt:
\* the product is as it was created and one error was counted.
C25_Witness ==
  \E s \in Finished :
    \E i \in 1..Len(sweep[s].items) :
      /\ sweep[s].outcome[i] = "nofetch"
      /\ tracked_products[sweep[s].items[i].id].current_price = InitialPrice
      /\ price_history[sweep[s].items[i].id] = <<>>
      /\ runStats.errors = 1

\* The items of a frame that step from w to v newly marked as skipped.
NewlySkipped(w, v) ==
  {i \in 1..Len(v.items) :
     /\ v.outcome[i] = "skipped"
     /\ (w.run # v.run \/ w.outcome[i] # "skipped")}

\* C26: for every candidate that isEligibleForCheck reports as not eligible,
\* the sweep adds exactly one to productsSkipped, never calls the fetcher for
\* it, and leaves its stored price, last-checked-at, history and alert state
\* as they were.
C26_SkipFrame ==
  /\ [](\A s \in Sweeps : \A i \in 1..Len(sweep[s].items) :
          (/\ sweep[s].evalAt[i] # <<>>
           /\ ~isEligibleForCheck(GroupUser(sweep[s].items[i]), sweep[s].items[i],
                                   sweep[s].evalAt[i][1])) =>
            /\ sweep[s].outcome[i] = "skipped"
            /\ sweep[s].got[i] = 0)
  /\ [][\A s \in Sweeps :
          sweep'[s] # sweep[s] =>
            LET new == NewlySkipped(sweep[s], sweep'[s])
                base == IF sweep'[s].run # sweep[s].run THEN 0
                        ELSE runStats.productsSkipped
            IN  /\ runStats'.productsSkipped = base + Cardinality(new)
                /\ \A i \in new :
                     LET p == sweep'[s].items[i].id
                     IN  /\ tracked_products'[p] = tracked_products[p]
                         /\ price_history'[p] = price_history[p]
                         /\ quotes'[p] = quotes[p]]_vars

\* A sweep returned that skipped a product checked half a day before, after
\* it had checked and stored another one.
C26_Witness ==
  \E s \in Finished :
    \E i \in 1..Len(sweep[s].items), j \in 1..Len(sweep[s].items) :
      /\ sweep[s].outcome[i] = "skipped"
      /\ sweep[s].got[i] = 0
      /\ sweep[s].outcome[j] \in {"checked", "notified"}
      /\ runStats.productsSkipped = 1
      /\ price_history[sweep[s].items[i].id] = <<>>

\* C27: in a sweep a pacing delay precedes the fetch of every eligible item
\* except the first eligible item of the sweep, whether the fetches of the
\* earlier eligible items succeeded or failed: the sweep goes to the fetch of
\* a new item without the delay exactly when every earlier item was skipped.
C27_PacingBeforeLaterItems ==
  [][\A s \in Sweeps :
       LET w == sweep[s]
           v == sweep'[s]
           first == \A i \in 1..(v.idx - 1) : v.outcome[i] = "skipped"
       IN  ((v.run # w.run \/ v.idx # w.idx) /\ v.pc \in {"delay", "fetch"}) =>
             (v.pc = "fetch" <=> first)]_vars

\* C28: a product's last-alerted price is written only after a notification
\* for that product was dispatched successfully, and is then the new price of
\* that check (last-alerted-at the instant of the write); when the notifier
\* fails, last-alerted price and last-alerted-at are left as they were.
C28_AlertStateAfterDispatch ==
  [][/\ \A p \in Products :
          (\/ tracked_products'[p].last_alert_price # tracked_products[p].last_alert_price
           \/ tracked_products'[p].last_alerted_at # tracked_products[p].last_alerted_at) =>
            \E s \in Sweeps :
              /\ sweep[s].pc = "alert"
              /\ sweep[s].items[sweep[s].idx].id = p
              /\ sweep[s].newPrice = sweep[s].got[sweep[s].idx]
              /\ tracked_products'[p].last_alert_price = sweep[s].newPrice
              /\ tracked_products'[p].last_alerted_at = <<now>>
              /\ \E m \in sent : /\ m.product = p
                                 /\ m.newPrice = sweep[s].newPrice
                                 /\ m.run = sweep[s].run
     /\ \A s \in Sweeps :
          (sweep[s].pc = "send" /\ sweep'[s].outcome[sweep[s].idx] = "sendfail") =>
            /\ tracked_products' = tracked_products
            /\ alerts' = alerts]_vars

\* A sweep returned in which one product was notified and has the fetched
\* price as its last-alerted price, and the notification of another failed
\* and left it without alert state.
C28_Witness ==
  \E s \in Finished :
    \E i \in 1..Len(sweep[s].items), j \in 1..Len(sweep[s].items) :
      /\ sweep[s].outcome[i] = "notified"
      /\ tracked_products[sweep[s].items[i].id].last_alert_price = sweep[s].got[i]
      /\ sweep[s].outcome[j] = "sendfail"
      /\ tracked_products[sweep[s].items[j].id].last_alert_price = 0
      /\ tracked_products[sweep[s].items[j].id].last_alerted_at = <<>>

\* C29: in a sweep every meaningful drop (the price fell and the fall is at
\* least MIN_DROP_PERCENT percent) that is not suppressed by the last-alerted
\* price leads to a notification attempt, whether or not a target is set and
\* whether or not it is reached: the sweep's decision is to notify.
C29_MeaningfulDropNotified ==
  (/\ ret.fn = "shouldSendNotification"
   /\ calculatePriceChange(call.oldPrice, call.newPrice).isMeaningful
   /\ (call.product.last_alert_price = 0
          \/ call.newPrice < call.product.last_alert_price)) =>
    ret.val.notify

\* C30: in a sweep a fall of the price by less than MIN_DROP_PERCENT percent
\* that does not bring the price to or below a set target produces no
\* notification, also when no target is set.
C30_SmallDropSilent ==
  (/\ ret.fn = "shouldSendNotification"
   /\ call.newPrice > 0
   /\ call.newPrice < call.oldPrice
   /\ (call.oldPrice - call.newPrice) * 100 < MIN_DROP_PERCENT * call.oldPrice
   /\ ~(call.product.target_price # 0 /\ call.newPrice <= call.product.target_price)) =>
    ~ret.val.notify

\* C31: every sweep goes IDLE, LOADING, PROCESSING, SUMMARIZING, IDLE: a sweep
\* whose load succeeded has logged the run statistics when it has returned,
\* also when it loaded no candidate, and every sweep that was started returns,
\* provided every awaited call settles.
C31_PhaseOrder ==
  /\ [](\A s \in Sweeps :
         sweep[s].pc = "done" /\ ~sweep[s].loadFailed => sweep[s].summary)
  /\ \A s \in Sweeps :
       (sweep[s].pc \notin {"idle", "done"}) ~> (sweep[s].pc \in {"idle", "done"})

\* C32: within one sweep the candidates are processed strictly one after the
\* other: every candidate before the current one is finished, no candidate
\* after it was evaluated or fetched, and a step of the sweep fetches, writes
\* or notifies for the current candidate only.
C32_StrictlySequential ==
  /\ [](\A s \in Sweeps : \A i \in 1..Len(sweep[s].items) :
         /\ i < sweep[s].idx => sweep[s].outcome[i] # "pending"
         /\ i > sweep[s].idx => /\ sweep[s].outcome[i] = "pending"
                                /\ sweep[s].got[i] = 0
                                /\ sweep[s].evalAt[i] = <<>>
         /\ i = sweep[s].idx =>
              (sweep[s].outcome[i] = "pending" <=> sweep[s].pc \notin {"idle", "done"}))
  /\ [][\A s \in slots :
         /\ sweep'[s].run = sweep[s].run =>
              \A i \in 1..Len(sweep[s].items) :
                sweep'[s].got[i] # sweep[s].got[i] =>
                  i = sweep[s].idx /\ sweep[s].pc = "fetch"
         /\ \A p \in Products :
              \/ tracked_products'[p] # tracked_products[p]
              \/ price_history'[p] # price_history[p]
              \/ quotes'[p] # quotes[p]
              \/ \E m \in (sent' \ sent) \cup (alerts' \ alerts) : m.product = p
              => /\ sweep[s].pc \in {"fetch", "update", "history", "send", "alert"}
                 /\ Item(s).id = p
                 /\ sweep[s].outcome[sweep[s].idx] = "pending"]_vars

\* The second candidate is about to be fetched after the first one was fetched,
\* updated, recorded and notified, with its alert state stored.
C32_Witness ==
  \E s \in Sweeps :
    /\ sweep[s].pc = "fetch" /\ sweep[s].idx = 2
    /\ sweep[s].outcome[1] = "notified"
    /\ \E m \in alerts : m.product = sweep[s].items[1].id /\ m.run = sweep[s].run

C34_OwnerOrder ==
  \A s \in Sweeps :
    LET items == sweep[s].items
    IN  \A i, j \in 1..Len(items) :
          i < j /\ items[i].user_id = items[j].user_id =>
            /\ \A k \in i..j : items[k].user_id = items[i].user_id
            /\ items[i].id < items[j].id

\* C35: deleteTrackedProduct(productId, userId) only marks the product
\* inactive: the row keeps every other column and the history keeps every
\* entry; for a product of another user nothing changes and the result is
\* false; an inactive product is not loaded by a sweep and not counted
\* against its owner's quota.
C35_RemovalOnlyDeactivates ==
  /\ [](\A u \in Users :
         countUserTrackedProducts(u) =
           Cardinality({p \in Products : /\ tracked_products[p].user_id = u
                                         /\ tracked_products[p].is_active}))
  /\ [][/\ removals' # removals =>
            LET r == removals'[Len(removals')]
                own == tracked_products[r.productId].user_id = r.userId
            IN  /\ price_history' = price_history
                /\ users' = users
                /\ r.deleted = own
                /\ \A q \in Products :
                     tracked_products'[q] =
                       IF q = r.productId /\ own
                       THEN [tracked_products[q] EXCEPT !.is_active = FALSE]
                       ELSE tracked_products[q]
         /\ \A s \in Sweeps :
              sweep'[s].run # sweep[s].run =>
                \A i \in 1..Len(sweep'[s].items) :
                  tracked_products[sweep'[s].items[i].id].is_active]_vars

\* A user removed a product of their own, another user was refused, and a
\* sweep that started afterwards loaded the remaining product only.
C35_Witness ==
  \E i, j \in 1..Len(removals) : \E s \in Sweeps :
    /\ removals[i].deleted /\ removals[i].userId = 1
    /\ ~removals[j].deleted /\ removals[j].userId = 2
    /\ ~tracked_products[removals[i].productId].is_active
    /\ sweep[s].run > removals[i].progress[s].run
    /\ Len(sweep[s].items) = 1
    /\ countUserTrackedProducts(1) = 1

\* C36: the price history is append-only: a step other than a retention run
\* leaves the entries of a product as they are or adds one entry after them;
\* a retention run cleanupPriceHistory(N) leaves each product its min(N, count)
\* most recent entries, unchanged and in their order.
C36_AppendOnly ==
  [][\A p \in Products :
       LET h == price_history[p]
           after == price_history'[p]
       IN  IF cleanups' = cleanups
             THEN \/ after = h
                  \/ Len(after) = Len(h) + 1 /\ SubSeq(after, 1, Len(h)) = h
             ELSE LET n == cleanups'[Len(cleanups')].keepCount
                      k == IF n < Len(h) THEN n ELSE Len(h)
                  IN  /\ Len(after) = k
                      /\ \E K \in SUBSET (1..Len(h)) :
                           /\ Cardinality(K) = k
                           /\ after = Restrict(h, K)
                           /\ \A i \in K, j \in (1..Len(h)) \ K :
                                h[i].checked_at > h[j].checked_at]_vars

\* A retention run with N = 1 deleted entries and left a product its entry of
\* Monday, the newer of two.
C36_Witness ==
  /\ cleanups # <<>>
  /\ cleanups[1].keepCount = 1 /\ cleanups[1].changes = 2
  /\ \A p \in {1, 2} :
       /\ Len(price_history[p]) = 1
       /\ price_history[p][1].checked_at = StartTime + MinutesPerDay

\* C37: on SIGINT or SIGTERM no new sweep starts, and the item in flight is
\* allowed to finish: when no call failed, after the shutdown every price a
\* check wrote has its history entry, which holds the current price, and
\* every notification sent has its alert state stored.
C37_ShutdownLetsItemFinish ==
  /\ []((slots = {} /\ faults = 0) =>
          /\ \A p \in Products :
               /\ Len(price_history[p]) = writes[p]
               /\ writes[p] > 0 =>
                    price_history[p][Len(price_history[p])].price
                      = tracked_products[p].current_price
          /\ \A m \in sent :
               \E a \in alerts :
                 a.product = m.product /\ a.price = m.newPrice /\ a.run = m.run)
  /\ [][slots = {} => runs' = runs /\ dbVars' = dbVars /\ sent' = sent]_vars

\* C38: a sweep that runs alone counts every candidate exactly once: while
\* it runs, productsChecked + productsSkipped + errors is the number of
\* candidates it is done with (the current one included once its history
\* entry is written), at its end the number n of candidates loaded,
\* whatever was skipped and whichever calls failed; and notificationsSent <=
\* priceDrops <= productsChecked.
C38_EveryCandidateCountedOnce ==
  \A s \in slots :
    LET w == sweep[s]
        settled == {i \in 1..Len(w.items) : w.outcome[i] # "pending"}
        notifying == {i \in 1..Len(w.items) :
                        i = w.idx /\ w.pc \in {"send", "alert"}}
        errors == ItemsWith(w, {"nofetch", "updfail", "histfail"})
    IN  (w.run > 0 /\ ~w.loadFailed) =>
          /\ runStats.productsChecked + runStats.productsSkipped + runStats.errors
               = Cardinality(settled \cup notifying)
          /\ w.pc = "done" => settled = 1..Len(w.items)
          /\ runStats.productsSkipped = Cardinality(ItemsWith(w, {"skipped"}))
          /\ runStats.errors = Cardinality(errors)
          /\ runStats.notificationsSent <= runStats.priceDrops
          /\ runStats.priceDrops <= runStats.productsChecked

\* A finished sweep over three candidates: one skipped, one whose price
\* update failed, one checked whose notification failed.
C38_Witness ==
  \E s \in slots :
    /\ sweep[s].pc = "done" /\ Len(sweep[s].items) = 3
    /\ ItemsWith(sweep[s], {"skipped"}) # {}
    /\ ItemsWith(sweep[s], {"updfail", "histfail", "nofetch"}) # {}
    /\ ItemsWith(sweep[s], {"sendfail", "alertfail"}) # {}
    /\ runStats.productsChecked = 1 /\ runStats.productsSkipped = 1
    /\ runStats.errors = 1 /\ runStats.priceDrops = 1
    /\ runStats.notificationsSent = 0

\* The products the scheduled job of an interval loads.
LoadedBy(interval) ==
  LET rows == getActiveTrackedProductsByInterval(interval)
  IN  {rows[i].id : i \in 1..Len(rows)}

RemovedBeforeItem(s) ==
  {removals[i].productId : i \in {j \in 1..Len(removals) :
      /\ removals[j].deleted
      /\ \/ removals[j].progress[s].run < sweep[s].run
         \/ /\ removals[j].progress[s].run = sweep[s].run
            /\ removals[j].progress[s].idx < sweep[s].idx}}

\* C40: a sweep writes no price and sends no notification for a product that
\* its owner removed before the sweep began to process that item, also when
\* the product was removed after the sweep loaded its candidates.
C40_NoWriteAfterRemoval ==
  [][\A s \in Sweeps :
       sweep[s].pc \in {"update", "send"} =>
         \A p \in RemovedBeforeItem(s) :
           /\ writes'[p] = writes[p]
           /\ tracked_products'[p].current_price = tracked_products[p].current_price
           /\ \A m \in sent' \ sent : m.product # p]_vars
====
